---- MODULE Spec2Model ----
(***************************************************************************)
(* A model of the FSH importer (src/src/import/FSHImporter.ts): the        *)
(* preprocessor's symbol table, the resolver (normalizedValue), the        *)
(* two-pass import, the metadata / instance / value-set / rule visitors    *)
(* and the multiline-string extraction.                                    *)
(***************************************************************************)
EXTENDS Integers, Sequences, FiniteSets, TLC

VARIABLES
  contexts,         \* import: the parse trees (pc.DocContext) of the batch, with their paths
  fhirDefs,         \* FSHImporter.fhirDefs: the definition provider
  data,             \* preprocess: the PreprocessedData under construction (const data)
  preprocessedData, \* FSHImporter.preprocessedData: the table the visitor reads
  docs,             \* import: the FSHDocuments (const docs)
  currentDoc,       \* FSHImporter.currentDoc: index into docs, 0 for null
  currentFile,      \* FSHImporter.currentFile
  pc,               \* position of the import call
  pos,              \* <<document index, entity index>> of the running forEach
  lastReg,          \* arguments of the last PreprocessedData.register call
  regCount,         \* number of register calls made so far
  logs,             \* the diagnostics handed to logger.error / logger.warn, in order
  fvVisits,         \* the fixed value rules of instances visited so far, in order
  lastCall          \* the last call of a pure helper: its name, arguments and result

vars == <<contexts, fhirDefs, data, preprocessedData, docs, currentDoc, currentFile,
          pc, pos, lastReg, regCount, logs, fvVisits, lastCall>>

\* ------------------------------------------------------------------ bounds
\* Longest sequence of register calls explored by SpecRegister.
MaxRegs == 4

\* ------------------------------------------------------------ value domains
\* enum EntityType
EntityTypes ==
  {"Alias", "Profile", "Extension", "ValueSet", "CodeSystem", "Instance", "Resource", "Type"}

\* Names, ids and aliases that the documents may use (SEQUENCE tokens).
Syms == {"A", "B"}

\* URLs that a register call may carry.
RegUrls == {"http://u.org/1", "http://u.org/2"}

NoCall == [name |-> "", value |-> "", type |-> "none"]

\* No pure helper has been called yet.
NoLastCall == [op |-> "none"]

\* ------------------------------------------------------------- Map helpers
\* new Map()
EmptyMap == [k \in {} |-> ""]

\* Map.prototype.has
Has(m, k) == k \in DOMAIN m

\* Map.prototype.set
MapSet(m, k, v) == [x \in (DOMAIN m) \cup {k} |-> IF x = k THEN v ELSE m[x]]

\* ------------------------------------------------------- PreprocessedData
\* new PreprocessedData(): seven empty maps
NewPreprocessedData ==
  [aliases |-> EmptyMap, profiles |-> EmptyMap, extensions |-> EmptyMap,
   valueSets |-> EmptyMap, codeSystems |-> EmptyMap, instances |-> EmptyMap,
   all |-> EmptyMap]

\* PreprocessedData.forType: the per-kind map; Resource and Type get a fresh empty map
forType(pd, type) ==
  CASE type = "Alias"      -> pd.aliases
    [] type = "Profile"    -> pd.profiles
    [] type = "Extension"  -> pd.extensions
    [] type = "ValueSet"   -> pd.valueSets
    [] type = "CodeSystem" -> pd.codeSystems
    [] type = "Instance"   -> pd.instances
    [] OTHER               -> EmptyMap

\* typeMap.set(name, value) on the map forType returned: it is one of the
\* object's own maps for the six FSH kinds and a throw-away map otherwise.
typeMapSet(pd, type, name, value) ==
  CASE type = "Alias"      -> [pd EXCEPT !.aliases = MapSet(@, name, value)]
    [] type = "Profile"    -> [pd EXCEPT !.profiles = MapSet(@, name, value)]
    [] type = "Extension"  -> [pd EXCEPT !.extensions = MapSet(@, name, value)]
    [] type = "ValueSet"   -> [pd EXCEPT !.valueSets = MapSet(@, name, value)]
    [] type = "CodeSystem" -> [pd EXCEPT !.codeSystems = MapSet(@, name, value)]
    [] type = "Instance"   -> [pd EXCEPT !.instances = MapSet(@, name, value)]
    [] OTHER               -> pd

\* A register that overwrites: the two conflict branches dropped.
registerLastWins(pd, name, value, type) ==
  [typeMapSet(pd, type, name, value) EXCEPT !.all = MapSet(@, name, value)]

\* PreprocessedData.register
register(pd, name, value, type) ==
  LET typeMap == forType(pd, type) IN
  IF Has(typeMap, name) /\ typeMap[name] # value THEN
    pd   \* error
  ELSE IF Has(pd.all, name) /\ pd.all[name] # value THEN
    pd   \* error
  ELSE
    [typeMapSet(pd, type, name, value) EXCEPT !.all = MapSet(@, name, value)]

\* The diagnostics a register call hands to the logger: the two conflict
\* branches hold a comment only, so there are none.
registerLogs(pd, name, value, type) == <<>>

\* ------------------------------------------------- register call sequences
InitRegister ==
  /\ data = NewPreprocessedData
  /\ preprocessedData = NewPreprocessedData
  /\ contexts = <<>>
  /\ fhirDefs = <<>>
  /\ docs = <<>>
  /\ currentDoc = 0
  /\ currentFile = ""
  /\ pc = "register"
  /\ pos = <<1, 1>>
  /\ lastReg = NoCall
  /\ regCount = 0
  /\ logs = <<>>
  /\ fvVisits = <<>>
  /\ lastCall = NoLastCall

\* One call data.register(name, value, type)
RegisterCall ==
  /\ pc = "register"
  /\ regCount < MaxRegs
  /\ \E name \in Syms, value \in RegUrls, type \in EntityTypes :
       /\ data' = register(data, name, value, type)
       /\ logs' = logs \o registerLogs(data, name, value, type)
       /\ lastReg' = [name |-> name, value |-> value, type |-> type]
  /\ regCount' = regCount + 1
  /\ UNCHANGED <<contexts, fhirDefs, preprocessedData, docs, currentDoc, currentFile, pc, pos,
                 fvVisits, lastCall>>

NextRegister == RegisterCall

SpecRegister == InitRegister /\ [][NextRegister]_vars

\* ---------------------------------------------------------- parse trees
\* JavaScript's undefined / null where a string is expected.
Undefined == "undefined"

\* config.canonical
Canonical == "http://example.org"

\* An entity context of a parse tree. kind is the alternative that is set
\* (alias, profile, extension, instance, valueSet); name is its first SEQUENCE;
\* url is an alias's second SEQUENCE; meta are the metadata contexts, rules
\* the sdRule / fixedValueRule contexts and components the vsComponent contexts.
EntityCtx(kind, name, url, meta, rules, components) ==
  [kind |-> kind, name |-> name, url |-> url, meta |-> meta, rules |-> rules,
   components |-> components]

\* A metadata context: key names the alternative that is set, text is the
\* text of its SEQUENCE (or the content of its STRING).
MetaCtx(key, text) == [key |-> key, text |-> text]

\* ------------------------------------------------------ definition provider
\* The kinds FHIRDefinitions has a per-kind lookup for.
ProviderKinds == {"Resource", "Type", "Profile", "Extension", "ValueSet", "CodeSystem"}

\* A lookup's answer: null, or a record whose url may be missing or empty.
NullDef == [present |-> FALSE, url |-> ""]
Def(url) == [present |-> TRUE, url |-> url]

\* The URL an external package gives a symbol.
ExternalUrl(sym) == "http://hl7.org/fhir/StructureDefinition/" \o sym

\* A provider that knows every symbol under the kinds in known, with the
\* URLs urlOf; it answers null everywhere else.
ProviderOf(known, urlOf) ==
  [q \in ProviderKinds \X (DOMAIN urlOf) |-> IF q[1] \in known THEN Def(urlOf[q[2]]) ELSE NullDef]

\* fhirDefs.findResource / findType / findProfile / findExtension /
\* findValueSet / findCodeSystem
findByKind(defs, kind, value) ==
  IF <<kind, value>> \in DOMAIN defs THEN defs[<<kind, value>>] ELSE NullDef

\* ------------------------------------------------------------- the resolver
\* for (const type of types) { typeMap = forType(type); if (typeMap.has(value)) return typeMap.get(value) }
RECURSIVE localLookup(_, _, _)
localLookup(pd, value, types) ==
  IF types = <<>> THEN [found |-> FALSE, url |-> ""]
  ELSE LET typeMap == forType(pd, Head(types)) IN
       IF Has(typeMap, value) THEN [found |-> TRUE, url |-> typeMap[value]]
       ELSE localLookup(pd, value, Tail(types))

\* for (const type of types) { def = fhirDefs.findX(value); if (def && def.url) return def.url }
RECURSIVE externalLookup(_, _, _)
externalLookup(defs, value, types) ==
  IF types = <<>> THEN [found |-> FALSE, url |-> ""]
  ELSE LET def == IF Head(types) \in ProviderKinds
                  THEN findByKind(defs, Head(types), value)
                  ELSE NullDef   \* Alias, Instance: no lookup
       IN IF def.present /\ def.url # "" THEN [found |-> TRUE, url |-> def.url]
          ELSE externalLookup(defs, value, Tail(types))

\* A resolver that asks the provider first.
normalizedValueExternalFirst(pd, defs, value, types) ==
  LET ext == externalLookup(defs, value, types)
      local == localLookup(pd, value, types)
  IN IF ext.found THEN ext.url ELSE IF local.found THEN local.url ELSE value

\* A resolver that returns the url of the first record the provider has,
\* empty or not.
normalizedValueAnyRecord(pd, defs, value, types) ==
  LET local == localLookup(pd, value, types)
      hits == {i \in 1..Len(types) :
                 types[i] \in ProviderKinds /\ findByKind(defs, types[i], value).present}
  IN IF local.found THEN local.url
     ELSE IF hits # {}
          THEN findByKind(defs, types[CHOOSE i \in hits : \A j \in hits : i <= j], value).url
          ELSE value

\* A resolver that asks the provider about the allowed kinds from the last
\* to the first.
normalizedValueLastKindFirst(pd, defs, value, types) ==
  LET local == localLookup(pd, value, types) IN
  IF local.found THEN local.url
  ELSE LET ext == externalLookup(defs, value,
                                 [i \in 1..Len(types) |-> types[Len(types) + 1 - i]]) IN
       IF ext.found THEN ext.url ELSE value

\* FSHImporter.normalizedValue with at least one allowed type
normalizedValue(pd, defs, value, types) ==
  LET local == localLookup(pd, value, types) IN
  IF local.found THEN local.url
  ELSE LET ext == externalLookup(defs, value, types) IN
       IF ext.found THEN ext.url ELSE value

\* fhirDefs.find(value): the generic lookup, a definition of any kind or null
find(defs, value) ==
  IF \E kind \in ProviderKinds : findByKind(defs, kind, value).present
  THEN findByKind(defs, CHOOSE kind \in ProviderKinds : findByKind(defs, kind, value).present,
                  value)
  ELSE NullDef

\* A JavaScript value normalizedValue returns: a string, or a definition
\* object, of which the model keeps the url.
StringValue(str) == [type |-> "string", value |-> str]
ObjectValue(def) == [type |-> "object", value |-> def.url]

\* FSHImporter.normalizedValue with no allowed type:
\* this.preprocessedData.all.get(value) ?? this.fhirDefs.find(value) ?? value
normalizedValueNoTypes(pd, defs, value) ==
  IF Has(pd.all, value) THEN StringValue(pd.all[value])
  ELSE IF find(defs, value).present THEN ObjectValue(find(defs, value))
  ELSE StringValue(value)

\* ----------------------------------------------------------- the preprocessor
\* metaCtx.find(m => m.id() != null)?.id().SEQUENCE().getText()
RECURSIVE firstId(_)
firstId(meta) ==
  IF meta = <<>> THEN Undefined
  ELSE IF Head(meta).key = "Id" THEN Head(meta).text
  ELSE firstId(Tail(meta))

\* A URL synthesis that ignores the declared id.
sdUrlByName(pId, pName) == Canonical \o "/StructureDefinition/" \o pName

\* `${config.canonical}/StructureDefinition/${pId ?? pName}`
sdUrl(pId, pName) ==
  Canonical \o "/StructureDefinition/" \o (IF pId # Undefined THEN pId ELSE pName)

\* `${config.canonical}/ValueSet/${vsId ?? vsName}`
vsUrl(vsId, vsName) ==
  Canonical \o "/ValueSet/" \o (IF vsId # Undefined THEN vsId ELSE vsName)

\* The body of preprocess's inner forEach: the registrations of one entity.
preprocessEntity(pd, e) ==
  CASE e.kind = "alias" -> register(pd, e.name, e.url, "Alias")
    [] e.kind \in {"profile", "extension"} ->
         LET pName == e.name
             pId == firstId(e.meta)
             url == sdUrl(pId, pName)
             type == IF e.kind = "profile" THEN "Profile" ELSE "Extension"
             d1 == register(pd, pName, url, type)
         IN IF pId # Undefined /\ pId # pName THEN register(d1, pId, url, type) ELSE d1
    [] e.kind = "valueSet" ->
         LET vsName == e.name
             vsId == firstId(e.meta)
             url == vsUrl(vsId, vsName)
             d1 == register(pd, vsName, url, "ValueSet")
         IN IF vsId # Undefined /\ vsId # vsName THEN register(d1, vsId, url, "ValueSet") ELSE d1
    [] OTHER -> pd   \* TODO: CodeSystem, Instance

\* ------------------------------------------------------- source locations
\* The source lines an entity context spans: its header line, then a line
\* for each metadata, rule and component context.
\* The lines the filter definitions of the components before the k-th take:
\* each filter definition is written on a line of its own, below the line
\* its component starts on.
RECURSIVE filterLinesBefore(_, _)
filterLinesBefore(components, k) ==
  IF k <= 1 THEN 0
  ELSE filterLinesBefore(components, k - 1) + Len(components[k - 1].filters)

\* The line the k-th component of an entity starts on, the entity's metadata
\* ending on line lastMetaLine.
componentLine(components, k, lastMetaLine) ==
  lastMetaLine + k + filterLinesBefore(components, k)

entitySize(e) ==
  1 + Len(e.meta) + Len(e.rules) + Len(e.components)
    + filterLinesBefore(e.components, Len(e.components) + 1)

\* The line of the header of entity ei of a document (lines count from 1).
RECURSIVE entityLine(_, _)
entityLine(entities, ei) ==
  IF ei = 1 THEN 1 ELSE entityLine(entities, ei - 1) + entitySize(entities[ei - 1])

\* FSHImporter.extractStartStop, lines only: startLine is the start token's
\* line and endLine the stop token's line.
extractStartStop(startLine, endLine) == [startLine |-> startLine, endLine |-> endLine]

\* A token of the lexer: its line (from 1), the column of its first character
\* (from 0), and the indexes in the input of its first and last character.
Token(line, column, start, stop) ==
  [line |-> line, column |-> column, start |-> start, stop |-> stop]

\* A terminal node, and a rule context with its first and last token.
TerminalNode(symbol) == [terminal |-> TRUE, symbol |-> symbol]
ParserRuleCtx(start, stop) == [terminal |-> FALSE, start |-> start, stop |-> stop]

\* A location whose end column is the column, from 0, of the token's last
\* character.
textLocationZeroBased(ctx) ==
  IF ctx.terminal
  THEN [startLine |-> ctx.symbol.line, startColumn |-> ctx.symbol.column + 1,
        endLine |-> ctx.symbol.line,
        endColumn |-> ctx.symbol.stop - ctx.symbol.start + ctx.symbol.column]
  ELSE [startLine |-> ctx.start.line, startColumn |-> ctx.start.column + 1,
        endLine |-> ctx.stop.line,
        endColumn |-> ctx.stop.stop - ctx.stop.start + ctx.stop.column]

\* FSHImporter.extractStartStop with its columns: the TextLocation of a
\* terminal node or of a rule context.
textLocation(ctx) ==
  IF ctx.terminal
  THEN [startLine |-> ctx.symbol.line, startColumn |-> ctx.symbol.column + 1,
        endLine |-> ctx.symbol.line,
        endColumn |-> ctx.symbol.stop - ctx.symbol.start + ctx.symbol.column + 1]
  ELSE [startLine |-> ctx.start.line, startColumn |-> ctx.start.column + 1,
        endLine |-> ctx.stop.line,
        endColumn |-> ctx.stop.stop - ctx.stop.start + ctx.stop.column + 1]

\* withLocation(...).withFile(...)
SourceInfo(file, location) == [file |-> file, location |-> location]

\* ------------------------------------------------------------- diagnostics
\* logger.error(message, {file, location})
ErrorLog(message, file, location) ==
  [level |-> "error", message |-> message, file |-> file, location |-> location]

\* `Metadata field '${key}' already declared with value '${prior}'.`
AlreadyDeclared(key, prior) == [text |-> "Metadata field already declared", key |-> key, prior |-> prior]

\* new RequiredMetadataError('InstanceOf', 'Instance', name).message
RequiredMetadata(name) == [text |-> "RequiredMetadataError InstanceOf Instance", key |-> "InstanceOf", prior |-> name]

\* ------------------------------------------------------------- IR entities
\* An entity of the IR. Fields a type does not have stay Undefined / empty.
NewEntity(type, name, sourceInfo) ==
  [type |-> type, name |-> name, id |-> Undefined, parent |-> Undefined,
   instanceOf |-> Undefined, title |-> Undefined, description |-> Undefined,
   rules |-> <<>>, components |-> <<>>, sourceInfo |-> sourceInfo]

\* new Profile(name): id defaults to the name, parent to Resource
NewProfile(name, sourceInfo) ==
  [NewEntity("Profile", name, sourceInfo) EXCEPT !.id = name, !.parent = "Resource"]

\* new Extension(name): id defaults to the name, parent to Extension
NewExtension(name, sourceInfo) ==
  [NewEntity("Extension", name, sourceInfo) EXCEPT !.id = name, !.parent = "Extension"]

\* new Instance(name)
NewInstance(name, sourceInfo) == NewEntity("Instance", name, sourceInfo)

\* new FshValueSet(name): id defaults to the name
NewFshValueSet(name, sourceInfo) ==
  [NewEntity("ValueSet", name, sourceInfo) EXCEPT !.id = name]

\* new FSHDocument(file)
NewFSHDocument(file) ==
  [file |-> file, aliases |-> EmptyMap, profiles |-> EmptyMap, extensions |-> EmptyMap,
   instances |-> EmptyMap, valueSets |-> EmptyMap]

\* ------------------------------------------------------------ metadata
\* The allowed types visitParent and visitInstanceOf pass to normalizedValue.
ParentTypes == <<"Alias", "Profile", "Extension", "Resource", "Type">>

\* FSHImporter.visitParent
visitParent(pd, defs, text) == normalizedValue(pd, defs, text, ParentTypes)

\* FSHImporter.visitInstanceOf
visitInstanceOf(pd, defs, text) == normalizedValue(pd, defs, text, ParentTypes)

\* FSHImporter.visitSdMetadata: the {key, value} pair of a metadata context
visitSdMetadata(pd, defs, ctx) ==
  CASE ctx.key = "Id"          -> [key |-> "Id", value |-> ctx.text]
    [] ctx.key = "Parent"      -> [key |-> "Parent", value |-> visitParent(pd, defs, ctx.text)]
    [] ctx.key = "Title"       -> [key |-> "Title", value |-> ctx.text]
    [] ctx.key = "Description" -> [key |-> "Description", value |-> ctx.text]
    [] OTHER                   -> [key |-> "Unknown", value |-> ctx.text]

\* FSHImporter.visitInstanceMetadata
visitInstanceMetadata(pd, defs, ctx) ==
  CASE ctx.key = "InstanceOf" -> [key |-> "InstanceOf", value |-> visitInstanceOf(pd, defs, ctx.text)]
    [] ctx.key = "Title"      -> [key |-> "Title", value |-> ctx.text]
    [] OTHER                  -> [key |-> "Unknown", value |-> ctx.text]

\* FSHImporter.visitVsMetadata
visitVsMetadata(pd, defs, ctx) ==
  CASE ctx.key = "Id"          -> [key |-> "Id", value |-> ctx.text]
    [] ctx.key = "Title"       -> [key |-> "Title", value |-> ctx.text]
    [] ctx.key = "Description" -> [key |-> "Description", value |-> ctx.text]
    [] OTHER                   -> [key |-> "Unknown", value |-> ctx.text]

\* The if / else-if chain that stores a pair on the entity: Id, Parent, Title
\* and Description for a Profile or Extension; InstanceOf and Title for an
\* Instance; Id, Title and Description for a ValueSet.
setMetadata(def, pair) ==
  CASE pair.key = "Id"          /\ def.type # "Instance" -> [def EXCEPT !.id = pair.value]
    [] pair.key = "Parent"      /\ def.type \in {"Profile", "Extension"} -> [def EXCEPT !.parent = pair.value]
    [] pair.key = "InstanceOf"  /\ def.type = "Instance" -> [def EXCEPT !.instanceOf = pair.value]
    [] pair.key = "Title"       -> [def EXCEPT !.title = pair.value]
    [] pair.key = "Description" /\ def.type # "Instance" -> [def EXCEPT !.description = pair.value]
    [] OTHER -> def

\* A metadata pass in which a later declaration of a key replaces the earlier one.
metadataStepLastWins(st, pair, file, location) ==
  [def |-> setMetadata(st.def, pair), seenPairs |-> MapSet(st.seenPairs, pair.key, pair.value),
   logs |-> st.logs]

\* The body of the forEach over the metadata pairs (the same in
\* parseProfileOrExtension, parseInstance and parseValueSet): a key seen before
\* is logged and dropped, a new key is remembered and stored on the entity.
metadataStep(st, pair, file, location) ==
  IF Has(st.seenPairs, pair.key) THEN
    [st EXCEPT !.logs = Append(@, ErrorLog(AlreadyDeclared(pair.key, st.seenPairs[pair.key]),
                                            file, location))]
  ELSE
    [def |-> setMetadata(st.def, pair), seenPairs |-> MapSet(st.seenPairs, pair.key, pair.value),
     logs |-> st.logs]

\* metaCtx.map(visitXMetadata).forEach(...): the pairs in source order, the
\* j-th metadata context lying on line headerLine + j.
RECURSIVE metadataLoop(_, _, _, _, _)
metadataLoop(st, pairs, j, file, headerLine) ==
  IF j > Len(pairs) THEN st
  ELSE metadataLoop(metadataStep(st, pairs[j], file,
                                 extractStartStop(headerLine + j, headerLine + j)),
                    pairs, j + 1, file, headerLine)

\* ------------------------------------------------------------------ rules
\* A rule context. kind names the alternative that is set (card, flag,
\* contains, fixedValue); card is the text of the CARD token as a sequence of
\* characters; flags are the flag contexts (MS, SU, ?!); items are the item
\* contexts of a contains rule, each with name, card and flags; value is the
\* STRING of a fixed value rule.
RuleCtx(kind, path, card, flags, items, value) ==
  [kind |-> kind, path |-> path, card |-> card, flags |-> flags, items |-> items,
   value |-> value]

ItemCtx(name, card, flags) == [name |-> name, card |-> card, flags |-> flags]

\* A rule of the IR. mustSupport, summary and modifier are TRUE when set and
\* FALSE when left undefined.
NewRule(type, path, sourceInfo) ==
  [type |-> type, path |-> path, min |-> -1, max |-> Undefined,
   mustSupport |-> FALSE, summary |-> FALSE, modifier |-> FALSE,
   items |-> <<>>, fixedValue |-> Undefined, sourceInfo |-> sourceInfo]

Digits == {"0", "1", "2", "3", "4", "5", "6", "7", "8", "9"}

DigitValue(c) ==
  CASE c = "0" -> 0 [] c = "1" -> 1 [] c = "2" -> 2 [] c = "3" -> 3 [] c = "4" -> 4
    [] c = "5" -> 5 [] c = "6" -> 6 [] c = "7" -> 7 [] c = "8" -> 8 [] c = "9" -> 9

\* parseInt of a sequence of digit characters
RECURSIVE parseInt(_)
parseInt(chars) ==
  IF chars = <<>> THEN 0
  ELSE parseInt(SubSeq(chars, 1, Len(chars) - 1)) * 10 + DigitValue(chars[Len(chars)])

\* The index of the first '..' in a character sequence, 0 if there is none.
RECURSIVE indexOfDots(_, _)
indexOfDots(chars, i) ==
  IF i + 1 > Len(chars) THEN 0
  ELSE IF chars[i] = "." /\ chars[i + 1] = "." THEN i
  ELSE indexOfDots(chars, i + 1)

\* The characters of a sequence joined into one string.
RECURSIVE joinChars(_)
joinChars(chars) == IF chars = <<>> THEN "" ELSE Head(chars) \o joinChars(Tail(chars))

\* FSHImporter.parseCard: card.split('..', 2), min = parseInt(parts[0]), max = parts[1]
parseCard(card) ==
  LET d == indexOfDots(card, 1)
      rest == SubSeq(card, d + 2, Len(card))
      d2 == indexOfDots(rest, 1)
  IN [min |-> parseInt(SubSeq(card, 1, d - 1)),
      max |-> joinChars(IF d2 = 0 THEN rest ELSE SubSeq(rest, 1, d2 - 1))]

\* FSHImporter.visitFlag
visitFlag(ctx) ==
  CASE ctx = "MS" -> "MustSupport"
    [] ctx = "SU" -> "Summary"
    [] ctx = "?!" -> "Modifier"
    [] OTHER -> "Unknown"

\* FSHImporter.parseFlags
parseFlags(flagRule, flagContext) ==
  LET flags == {visitFlag(flagContext[i]) : i \in 1..Len(flagContext)} IN
  [flagRule EXCEPT !.mustSupport = IF "MustSupport" \in flags THEN TRUE ELSE @,
                   !.summary = IF "Summary" \in flags THEN TRUE ELSE @,
                   !.modifier = IF "Modifier" \in flags THEN TRUE ELSE @]

\* A visitCardRule that emits a FlagRule for every line, flagged or not.
visitCardRuleAlwaysFlag(ctx, file, line) ==
  LET card == parseCard(ctx.card)
      cardRule == [NewRule("CardRule", ctx.path, SourceInfo(file, extractStartStop(line, line)))
                     EXCEPT !.min = card.min, !.max = card.max]
  IN <<cardRule,
       parseFlags(NewRule("FlagRule", cardRule.path,
                          SourceInfo(file, extractStartStop(line, line))), ctx.flags)>>

\* FSHImporter.visitCardRule
visitCardRule(ctx, file, line) ==
  LET card == parseCard(ctx.card)
      cardRule == [NewRule("CardRule", ctx.path, SourceInfo(file, extractStartStop(line, line)))
                     EXCEPT !.min = card.min, !.max = card.max]
  IN IF Len(ctx.flags) > 0
     THEN <<cardRule,
            parseFlags(NewRule("FlagRule", cardRule.path,
                               SourceInfo(file, extractStartStop(line, line))), ctx.flags)>>
     ELSE <<cardRule>>

\* FSHImporter.visitFlagRule with a single path
visitFlagRule(ctx, file, line) ==
  <<parseFlags(NewRule("FlagRule", ctx.path, SourceInfo(file, extractStartStop(line, line))),
               ctx.flags)>>

\* An expansion that emits a FlagRule for every item, flagged or not.
containsItemRulesAlwaysFlag(path, i, file, line) ==
  LET itemPath == path \o "[" \o i.name \o "]"
      card == parseCard(i.card)
      cardRule == [NewRule("CardRule", itemPath, SourceInfo(file, extractStartStop(line, line)))
                     EXCEPT !.min = card.min, !.max = card.max]
  IN <<cardRule,
       parseFlags(NewRule("FlagRule", itemPath,
                          SourceInfo(file, extractStartStop(line, line))), i.flags)>>

\* The rules visitContainsRule pushes for one item: its CardRule and, if the
\* item has flags, its FlagRule, both on path `${containsRule.path}[${item}]`.
containsItemRules(path, i, file, line) ==
  LET itemPath == path \o "[" \o i.name \o "]"
      card == parseCard(i.card)
      cardRule == [NewRule("CardRule", itemPath, SourceInfo(file, extractStartStop(line, line)))
                     EXCEPT !.min = card.min, !.max = card.max]
  IN IF Len(i.flags) > 0
     THEN <<cardRule,
            parseFlags(NewRule("FlagRule", itemPath,
                               SourceInfo(file, extractStartStop(line, line))), i.flags)>>
     ELSE <<cardRule>>

\* ctx.item().forEach(...): the rules of the items from the k-th on
RECURSIVE containsItemsLoop(_, _, _, _, _)
containsItemsLoop(path, items, k, file, line) ==
  IF k > Len(items) THEN <<>>
  ELSE containsItemRules(path, items[k], file, line)
       \o containsItemsLoop(path, items, k + 1, file, line)

\* FSHImporter.visitContainsRule
visitContainsRule(ctx, file, line) ==
  LET containsRule ==
        [NewRule("ContainsRule", ctx.path, SourceInfo(file, extractStartStop(line, line)))
           EXCEPT !.items = [k \in 1..Len(ctx.items) |-> ctx.items[k].name]]
  IN <<containsRule>> \o containsItemsLoop(containsRule.path, ctx.items, 1, file, line)

\* FSHImporter.visitFixedValueRule, the value a string literal
visitFixedValueRule(ctx, file, line) ==
  [NewRule("FixedValueRule", ctx.path, SourceInfo(file, extractStartStop(line, line)))
     EXCEPT !.fixedValue = ctx.value]

\* FSHImporter.visitSdRule: the rules a rule context yields, and what it logs
visitSdRule(ctx, file, line) ==
  CASE ctx.kind = "card"       -> [rules |-> visitCardRule(ctx, file, line), logs |-> <<>>]
    [] ctx.kind = "flag"       -> [rules |-> visitFlagRule(ctx, file, line), logs |-> <<>>]
    [] ctx.kind = "fixedValue" -> [rules |-> <<visitFixedValueRule(ctx, file, line)>>, logs |-> <<>>]
    [] ctx.kind = "contains"   -> [rules |-> visitContainsRule(ctx, file, line), logs |-> <<>>]
    [] OTHER -> [rules |-> <<>>,
                 logs |-> <<[level |-> "warn", message |-> [text |-> "Unsupported rule", key |-> "", prior |-> ""],
                             file |-> file, location |-> extractStartStop(line, line)]>>]

\* ruleCtx.forEach(sdRule => def.rules.push(...this.visitSdRule(sdRule)))
RECURSIVE sdRulesLoop(_, _, _, _, _)
sdRulesLoop(st, ruleCtx, j, file, firstLine) ==
  IF j > Len(ruleCtx) THEN st
  ELSE LET r == visitSdRule(ruleCtx[j], file, firstLine + j) IN
       sdRulesLoop([st EXCEPT !.def.rules = @ \o r.rules, !.logs = @ \o r.logs],
                   ruleCtx, j + 1, file, firstLine)

\* A parseProfileOrExtension that puts each rule line's rules in front of
\* the list instead of behind it.
parseProfileOrExtensionRulesInFront(def, metaCtx, ruleCtx, pd, defs, file, headerLine) ==
  LET pairs == [j \in 1..Len(metaCtx) |-> visitSdMetadata(pd, defs, metaCtx[j])]
      afterMeta == metadataLoop([def |-> def, seenPairs |-> EmptyMap, logs |-> <<>>],
                                pairs, 1, file, headerLine)
      reversed == [j \in 1..Len(ruleCtx) |-> ruleCtx[Len(ruleCtx) + 1 - j]]
  IN sdRulesLoop(afterMeta, reversed, 1, file, headerLine + Len(metaCtx))

\* FSHImporter.parseProfileOrExtension: the entity and the diagnostics
parseProfileOrExtension(def, metaCtx, ruleCtx, pd, defs, file, headerLine) ==
  LET pairs == [j \in 1..Len(metaCtx) |-> visitSdMetadata(pd, defs, metaCtx[j])]
      afterMeta == metadataLoop([def |-> def, seenPairs |-> EmptyMap, logs |-> <<>>],
                                pairs, 1, file, headerLine)
  IN sdRulesLoop(afterMeta, ruleCtx, 1, file, headerLine + Len(metaCtx))

\* ------------------------------------------------------------ value sets
\* A code context: the part of the CODE token before '#' ("" if none), the
\* part after it, and the optional display STRING.
CodeCtx(system, code) == [system |-> system, code |-> code]
NoCode == [system |-> "", code |-> ""]

\* A vsComponent context. exclude: KW_EXCLUDE is present; kind: concept or
\* filter; fromSystem: the SEQUENCE of vsFromSystem (Undefined if absent);
\* fromValueSets: the SEQUENCEs of vsFromValueset; code: the single code
\* (NoCode if absent); codes: the codes of COMMA_DELIMITED_CODES (empty if
\* absent); filters: the vsFilterDefinition contexts.
VsComponentCtx(exclude, kind, fromSystem, fromValueSets, code, codes, filters) ==
  [exclude |-> exclude, kind |-> kind, fromSystem |-> fromSystem,
   fromValueSets |-> fromValueSets, code |-> code, codes |-> codes, filters |-> filters]

\* new FshCode(code, system)
FshCode(code, system) == [code |-> code, system |-> system]

\* FSHImporter.visitCode: the system resolved against Alias and CodeSystem
visitCode(pd, defs, ctx) ==
  FshCode(ctx.code,
          IF ctx.system # "" THEN normalizedValue(pd, defs, ctx.system, <<"Alias", "CodeSystem">>)
          ELSE Undefined)

\* FSHImporter.visitVsComponentFrom; valueSets is empty when from.valueSets is undefined
visitVsComponentFrom(pd, defs, ctx) ==
  [system |-> IF ctx.fromSystem # Undefined
              THEN normalizedValue(pd, defs, ctx.fromSystem, <<"Alias", "CodeSystem">>)
              ELSE Undefined,
   valueSets |-> [k \in 1..Len(ctx.fromValueSets) |->
                    normalizedValue(pd, defs, ctx.fromValueSets[k], <<"Alias", "ValueSet">>)]]

\* 'Concept ... specifies system multiple times', 'Concept ... must include
\* system ...', 'System is required when listing concepts ...',
\* 'System is required when filtering ...'
VsMessage(text, code) == [text |-> text, key |-> code, prior |-> ""]

\* Branches that leave the from clause as written when the single code names
\* its own system.
conceptsAndFromAsWritten(ctx, from, singleCode, file, here) ==
  IF ctx.code # NoCode THEN
    IF singleCode.system # Undefined /\ from.system # Undefined THEN
      [concepts |-> <<>>, from |-> from,
       logs |-> <<ErrorLog(VsMessage("specifies system multiple times", singleCode.code), file, here)>>]
    ELSE IF singleCode.system # Undefined \/ from.system # Undefined THEN
      [concepts |-> <<singleCode>>, from |-> from, logs |-> <<>>]
    ELSE
      [concepts |-> <<>>, from |-> from,
       logs |-> <<ErrorLog(VsMessage("must include system", singleCode.code), file, here)>>]
  ELSE IF ctx.codes # <<>> /\ from.system # Undefined THEN
    [concepts |-> [k \in 1..Len(ctx.codes) |-> FshCode(ctx.codes[k], from.system)],
     from |-> from, logs |-> <<>>]
  ELSE [concepts |-> <<>>, from |-> from, logs |-> <<>>]

\* The branches of visitVsConceptComponent once the from clause and the
\* single code have been visited.
conceptsAndFrom(ctx, from, singleCode, file, here) ==
  IF ctx.code # NoCode THEN
    IF singleCode.system # Undefined /\ from.system # Undefined THEN
      [concepts |-> <<>>, from |-> from,
       logs |-> <<ErrorLog(VsMessage("specifies system multiple times", singleCode.code), file, here)>>]
    ELSE IF singleCode.system # Undefined THEN
      [concepts |-> <<singleCode>>, from |-> [from EXCEPT !.system = singleCode.system],
       logs |-> <<>>]
    ELSE IF from.system # Undefined THEN
      [concepts |-> <<[singleCode EXCEPT !.system = from.system]>>, from |-> from,
       logs |-> <<>>]
    ELSE
      [concepts |-> <<>>, from |-> from,
       logs |-> <<ErrorLog(VsMessage("must include system", singleCode.code), file, here)>>]
  ELSE IF ctx.codes # <<>> THEN
    IF from.system # Undefined THEN
      [concepts |-> [k \in 1..Len(ctx.codes) |-> FshCode(ctx.codes[k], from.system)],
       from |-> from, logs |-> <<>>]
    ELSE
      [concepts |-> <<>>, from |-> from,
       logs |-> <<ErrorLog(VsMessage("System is required when listing concepts", ""), file, here)>>]
  ELSE [concepts |-> <<>>, from |-> from, logs |-> <<>>]

\* FSHImporter.visitVsConceptComponent: [concepts, from] and what it logs
visitVsConceptComponent(pd, defs, ctx, file, line) ==
  conceptsAndFrom(ctx, visitVsComponentFrom(pd, defs, ctx), visitCode(pd, defs, ctx.code),
                  file, extractStartStop(line, line))

\* A vsFilterValue context: a code, a REGEX token, a STRING token (its
\* characters, quotes included), KW_TRUE or KW_FALSE; kind "none" when the
\* definition has no value, "other" for a value context with none of these.
FilterValueCtx(kind, code, chars) == [kind |-> kind, code |-> code, chars |-> chars]
NoFilterValue == FilterValueCtx("none", NoCode, <<>>)

\* A vsFilterDefinition context: SEQUENCE, vsFilterOperator, vsFilterValue.
FilterCtx(property, operator, value) ==
  [property |-> property, operator |-> operator, value |-> value]

\* str.replace(/\\\\/g, '\\') and str.replace(/\\"/g, '"'): every backslash
\* followed by the character c becomes c alone, from left to right
RECURSIVE replaceEscaped(_, _)
replaceEscaped(chars, c) ==
  IF chars = <<>> THEN <<>>
  ELSE IF Len(chars) >= 2 /\ chars[1] = "\\" /\ chars[2] = c
       THEN <<c>> \o replaceEscaped(SubSeq(chars, 3, Len(chars)), c)
       ELSE <<Head(chars)>> \o replaceEscaped(Tail(chars), c)

\* FSHImporter.extractString on the characters of a STRING token
extractString(chars) ==
  joinChars(replaceEscaped(replaceEscaped(SubSeq(chars, 2, Len(chars) - 1), "\\"), "\""))

\* The operators of a value set filter (VsOperator).
VsOperators ==
  {"=", "is-a", "descendent-of", "is-not-a", "regex", "in", "not-in", "generalizes", "exists"}

\* operator.toLocaleLowerCase() on the operator texts of the contexts
toLocaleLowerCase(text) ==
  CASE text = "IS-A" -> "is-a"
    [] text = "Exists" -> "exists"
    [] text = "Descendant-Of" -> "descendant-of"
    [] OTHER -> text

\* operator.replace('descendant', 'descendent')
replaceDescendant(text) ==
  CASE text = "descendant-of" -> "descendent-of"
    [] OTHER -> text

\* A ValueSetFilterValue: a string, a FshCode, a RegExp, a boolean, or
\* undefined; text holds the string, the regex source or the boolean.
FilterValue(type, text, code) == [type |-> type, text |-> text, code |-> code]

\* FSHImporter.visitVsFilterValue
visitVsFilterValue(pd, defs, ctx) ==
  CASE ctx.kind = "code"   -> FilterValue("FshCode", "", visitCode(pd, defs, ctx.code))
    [] ctx.kind = "regex"  -> FilterValue("RegExp",
                                          joinChars(SubSeq(ctx.chars, 2, Len(ctx.chars) - 1)),
                                          FshCode("", Undefined))
    [] ctx.kind = "string" -> FilterValue("string", extractString(ctx.chars),
                                          FshCode("", Undefined))
    [] ctx.kind = "true"   -> FilterValue("boolean", "true", FshCode("", Undefined))
    [] ctx.kind = "false"  -> FilterValue("boolean", "false", FshCode("", Undefined))
    [] OTHER               -> FilterValue("undefined", "", FshCode("", Undefined))

\* The errors visitVsFilterDefinition throws, and the TypeError of visitCode
\* on a CODE token without '#'.
FilterError(name, operator, expected) == [text |-> name, key |-> operator, prior |-> expected]

\* A type table that lets a regex filter take a string.
valueTypeOfRegexAsString(operator) ==
  CASE operator \in {"=", "in", "not-in", "regex"} -> "string"
    [] operator \in {"is-a", "descendent-of", "is-not-a", "generalizes"} -> "FshCode"
    [] operator = "exists" -> "boolean"
    [] OTHER -> ""

\* The type the value of an operator must have; "" for an unknown operator.
valueTypeOf(operator) ==
  CASE operator \in {"=", "in", "not-in"} -> "string"
    [] operator \in {"is-a", "descendent-of", "is-not-a", "generalizes"} -> "FshCode"
    [] operator = "regex" -> "RegExp"
    [] operator = "exists" -> "boolean"
    [] OTHER -> ""

\* The second argument of ValueSetFilterValueTypeError
expectedName(type) ==
  CASE type = "FshCode" -> "code" [] type = "RegExp" -> "regex" [] OTHER -> type

\* FSHImporter.visitVsFilterDefinition: threw tells whether it throws, error
\* what, filter what it returns otherwise.
visitVsFilterDefinition(pd, defs, ctx) ==
  LET operator == replaceDescendant(toLocaleLowerCase(ctx.operator))
      value == IF ctx.value.kind # "none" THEN visitVsFilterValue(pd, defs, ctx.value)
               ELSE FilterValue("boolean", "true", FshCode("", Undefined))
      filter == [property |-> ctx.property, operator |-> operator, value |-> value]
      Throw(error) == [threw |-> TRUE, error |-> error, filter |-> filter]
  IN IF ctx.value.kind = "none" /\ operator # "exists"
     THEN Throw(FilterError("ValueSetFilterMissingValueError", operator, ""))
     ELSE IF ctx.value.kind = "code" /\ ctx.value.code.code = Undefined
     THEN Throw(FilterError("TypeError", "", ""))
     ELSE IF operator \notin VsOperators
     THEN Throw(FilterError("ValueSetFilterOperatorError", ctx.operator, ""))
     ELSE IF value.type # valueTypeOf(operator)
     THEN Throw(FilterError("ValueSetFilterValueTypeError", operator,
                            expectedName(valueTypeOf(operator))))
     ELSE [threw |-> FALSE, error |-> FilterError("", "", ""), filter |-> filter]

\* vsFilterDefinition().forEach(filterDefinition => { try { filters.push(...) }
\* catch (e) { logger.error(e, {location, file}) } }), from the k-th
\* definition on; the k-th definition is on line `line + k`.
RECURSIVE filtersLoop(_, _, _, _, _, _, _)
filtersLoop(st, filterCtx, k, pd, defs, file, line) ==
  IF k > Len(filterCtx) THEN st
  ELSE LET r == visitVsFilterDefinition(pd, defs, filterCtx[k]) IN
       filtersLoop(IF r.threw
                   THEN [st EXCEPT !.logs = Append(@, ErrorLog(r.error, file,
                                                     extractStartStop(line + k, line + k)))]
                   ELSE [st EXCEPT !.filters = Append(@, r.filter)],
                   filterCtx, k + 1, pd, defs, file, line)

\* A loop over the filter definitions that one try block encloses: the first
\* error is logged and ends the loop.
visitFilterDefinitionsUntilError(filterCtx, pd, defs, file, line) ==
  LET bad == {k \in 1..Len(filterCtx) : visitVsFilterDefinition(pd, defs, filterCtx[k]).threw}
      last == IF bad = {} THEN Len(filterCtx) ELSE CHOOSE k \in bad : \A j \in bad : k <= j
  IN filtersLoop([filters |-> <<>>, logs |-> <<>>], SubSeq(filterCtx, 1, last), 1,
                 pd, defs, file, line)

\* The forEach over the filter definitions of a component that starts on line
visitFilterDefinitions(filterCtx, pd, defs, file, line) ==
  filtersLoop([filters |-> <<>>, logs |-> <<>>], filterCtx, 1, pd, defs, file, line)

\* The branches of visitVsFilterComponent once the from clause has been
\* visited.
filtersAndFrom(ctx, from, pd, defs, file, line) ==
  IF ctx.filters # <<>> THEN
    IF from.system # Undefined THEN
      LET r == visitFilterDefinitions(ctx.filters, pd, defs, file, line) IN
      [filters |-> r.filters, from |-> from, logs |-> r.logs]
    ELSE
      [filters |-> <<>>, from |-> from,
       logs |-> <<ErrorLog(VsMessage("System is required when filtering", ""), file,
                           extractStartStop(line, line + Len(ctx.filters)))>>]
  ELSE [filters |-> <<>>, from |-> from, logs |-> <<>>]

\* FSHImporter.visitVsFilterComponent: [filters, from] and what it logs
visitVsFilterComponent(pd, defs, ctx, file, line) ==
  filtersAndFrom(ctx, visitVsComponentFrom(pd, defs, ctx), pd, defs, file, line)

\* new ValueSetConceptComponent(inclusion) with the visit's concepts and from
conceptComponent(inclusion, r) ==
  [component |-> [type |-> "ValueSetConceptComponent", inclusion |-> inclusion,
                  from |-> r.from, concepts |-> r.concepts, filters |-> <<>>],
   logs |-> r.logs]

\* new ValueSetFilterComponent(inclusion) with the visit's filters and from
filterComponent(inclusion, r) ==
  [component |-> [type |-> "ValueSetFilterComponent", inclusion |-> inclusion,
                  from |-> r.from, concepts |-> <<>>, filters |-> r.filters],
   logs |-> r.logs]

\* FSHImporter.visitVsComponent: the component and what visiting it logs
visitVsComponent(pd, defs, ctx, file, line) ==
  IF ctx.kind = "concept"
  THEN conceptComponent(~ctx.exclude, visitVsConceptComponent(pd, defs, ctx, file, line))
  ELSE filterComponent(~ctx.exclude, visitVsFilterComponent(pd, defs, ctx, file, line))

\* Every string a from.valueSets entry can hold, in ascending order of
\* JavaScript's string comparison.
StringOrder ==
  <<"A", "B", vsUrl(Undefined, "A"), vsUrl(Undefined, "B"), ExternalUrl("A"), ExternalUrl("B"),
    "http://loinc.org">>

StringRank(str) == CHOOSE i \in 1..Len(StringOrder) : StringOrder[i] = str

\* The sequence with x inserted before the first element that ranks above it.
RECURSIVE insertSorted(_, _)
insertSorted(sorted, x) ==
  IF sorted = <<>> THEN <<x>>
  ELSE IF StringRank(x) < StringRank(Head(sorted)) THEN <<x>> \o sorted
  ELSE <<Head(sorted)>> \o insertSorted(Tail(sorted), x)

\* A comparison of the value sets in the order written.
sortByIdentity(strings) == strings

\* The first k strings of a list, sorted: each inserted after its equals.
RECURSIVE sortedPrefix(_, _)
sortedPrefix(strings, k) ==
  IF k = 0 THEN <<>> ELSE insertSorted(sortedPrefix(strings, k - 1), strings[k])

\* lodash sortBy of a list of strings (sortBy(undefined) is the empty list)
sortBy(strings) == sortedPrefix(strings, Len(strings))

\* The predicate of valueSet.components.find(...) in parseValueSet
matchesComponent(vsComponent, existingComponent) ==
  /\ existingComponent.type = "ValueSetConceptComponent"
  /\ vsComponent.inclusion = existingComponent.inclusion
  /\ vsComponent.from.system = existingComponent.from.system
  /\ sortBy(vsComponent.from.valueSets) = sortBy(existingComponent.from.valueSets)

\* valueSet.components.find(...): the index of the first match, 0 if none
RECURSIVE findMatch(_, _, _)
findMatch(components, vsComponent, k) ==
  IF k > Len(components) THEN 0
  ELSE IF matchesComponent(vsComponent, components[k]) THEN k
  ELSE findMatch(components, vsComponent, k + 1)

\* The body of the forEach over the visited components in parseValueSet
addComponent(components, vsComponent) ==
  IF vsComponent.type = "ValueSetConceptComponent" THEN
    LET m == findMatch(components, vsComponent, 1) IN
    IF m # 0 THEN [components EXCEPT ![m].concepts = @ \o vsComponent.concepts]
    ELSE Append(components, vsComponent)
  ELSE Append(components, vsComponent)

\* componentCtx.map(visitVsComponent).forEach(...): every component is
\* visited (and logs) before the first is added
RECURSIVE componentsLoop(_, _, _)
componentsLoop(components, visited, k) ==
  IF k > Len(visited) THEN components
  ELSE componentsLoop(addComponent(components, visited[k].component), visited, k + 1)

\* The logs of a sequence of visits, concatenated
RECURSIVE concatLogs(_, _)
concatLogs(visited, k) ==
  IF k > Len(visited) THEN <<>> ELSE visited[k].logs \o concatLogs(visited, k + 1)

\* parseValueSet once the metadata and the components have been visited
valueSetOf(afterMeta, visited) ==
  [def |-> [afterMeta.def EXCEPT !.components = componentsLoop(@, visited, 1)],
   logs |-> afterMeta.logs \o concatLogs(visited, 1)]

\* FSHImporter.parseValueSet
parseValueSet(valueSet, metaCtx, componentCtx, pd, defs, file, headerLine) ==
  valueSetOf(
    metadataLoop([def |-> valueSet, seenPairs |-> EmptyMap, logs |-> <<>>],
                 [j \in 1..Len(metaCtx) |-> visitVsMetadata(pd, defs, metaCtx[j])],
                 1, file, headerLine),
    [k \in 1..Len(componentCtx) |->
       visitVsComponent(pd, defs, componentCtx[k], file,
                        componentLine(componentCtx, k, headerLine + Len(metaCtx)))])

\* ------------------------------------------------------- uncaught errors
\* visitFlagRule on a context with neither path() nor paths(): paths stays
\* undefined and paths.map throws a TypeError.
visitFlagRuleThrows(ctx) == ctx.path = Undefined

\* visitCode on a CODE token without '#': conceptText[1] is undefined and
\* code.startsWith throws a TypeError.
visitCodeThrows(ctx) == ctx.code = Undefined

\* The codes of COMMA_DELIMITED_CODES that start with a quote and that the
\* quoted-string pattern does not match: code.match(...) is null and .map throws.
UnmatchedQuotedCodes == {"\"a"}

\* visitVsConceptComponent throws: from its single code, or from a listed
\* code once the from clause has a system.
visitVsConceptComponentThrows(pd, defs, ctx) ==
  IF ctx.code # NoCode THEN visitCodeThrows(ctx.code)
  ELSE /\ ctx.codes # <<>>
       /\ visitVsComponentFrom(pd, defs, ctx).system # Undefined
       /\ \E k \in 1..Len(ctx.codes) : ctx.codes[k] \in UnmatchedQuotedCodes

\* visitSdRule throws
visitSdRuleThrows(ctx) == ctx.kind = "flag" /\ visitFlagRuleThrows(ctx)

\* visitVsComponent throws
visitVsComponentThrows(pd, defs, ctx) ==
  ctx.kind = "concept" /\ visitVsConceptComponentThrows(pd, defs, ctx)

\* The index of the first rule or component context whose visit throws, 0 if
\* none does.
firstThrowing(pd, defs, ctx) ==
  IF ctx.kind \in {"profile", "extension"} THEN
    IF \E j \in 1..Len(ctx.rules) : visitSdRuleThrows(ctx.rules[j])
    THEN CHOOSE j \in 1..Len(ctx.rules) :
           /\ visitSdRuleThrows(ctx.rules[j])
           /\ \A h \in 1..(j - 1) : ~visitSdRuleThrows(ctx.rules[h])
    ELSE 0
  ELSE IF ctx.kind = "valueSet" THEN
    IF \E j \in 1..Len(ctx.components) : visitVsComponentThrows(pd, defs, ctx.components[j])
    THEN CHOOSE j \in 1..Len(ctx.components) :
           /\ visitVsComponentThrows(pd, defs, ctx.components[j])
           /\ \A h \in 1..(j - 1) : ~visitVsComponentThrows(pd, defs, ctx.components[h])
    ELSE 0
  ELSE 0

\* The entity context cut before its first throwing rule or component: what
\* the visit gets through before the error leaves it.
beforeThrow(ctx, j) ==
  [ctx EXCEPT !.rules = IF ctx.kind = "valueSet" THEN @ ELSE SubSeq(@, 1, j - 1),
              !.components = IF ctx.kind = "valueSet" THEN SubSeq(@, 1, j - 1) ELSE @]

\* ------------------------------------------------------- entity visitors
\* The location of an entity context: from its header line to its last line.
entityLocation(ctx, headerLine) == extractStartStop(headerLine, headerLine + entitySize(ctx) - 1)

\* FSHImporter.visitAlias
visitAlias(doc, ctx) ==
  [doc |-> [doc EXCEPT !.aliases = MapSet(@, ctx.name, ctx.url)], logs |-> <<>>, visits |-> <<>>]

\* A visitProfile that keys the document's map by the profile's id.
visitProfileKeyedById(doc, ctx, pd, defs, file, headerLine) ==
  LET profile == NewProfile(ctx.name, SourceInfo(file, entityLocation(ctx, headerLine)))
      r == parseProfileOrExtension(profile, ctx.meta, ctx.rules, pd, defs, file, headerLine)
  IN [doc |-> [doc EXCEPT !.profiles = MapSet(@, r.def.id, r.def)], logs |-> r.logs,
      visits |-> <<>>]

\* FSHImporter.visitProfile
visitProfile(doc, ctx, pd, defs, file, headerLine) ==
  LET profile == NewProfile(ctx.name, SourceInfo(file, entityLocation(ctx, headerLine)))
      r == parseProfileOrExtension(profile, ctx.meta, ctx.rules, pd, defs, file, headerLine)
  IN [doc |-> [doc EXCEPT !.profiles = MapSet(@, r.def.name, r.def)], logs |-> r.logs,
      visits |-> <<>>]

\* FSHImporter.visitExtension
visitExtension(doc, ctx, pd, defs, file, headerLine) ==
  LET extension == NewExtension(ctx.name, SourceInfo(file, entityLocation(ctx, headerLine)))
      r == parseProfileOrExtension(extension, ctx.meta, ctx.rules, pd, defs, file, headerLine)
  IN [doc |-> [doc EXCEPT !.extensions = MapSet(@, r.def.name, r.def)], logs |-> r.logs,
      visits |-> <<>>]

\* A parseInstance without the InstanceOf check.
requiresInstanceOfNever(instance) == FALSE

\* if (!instance.instanceOf) throw new RequiredMetadataError(...)
requiresInstanceOf(instance) == instance.instanceOf = Undefined \/ instance.instanceOf = ""

\* FSHImporter.parseInstance: threw tells whether RequiredMetadataError was
\* thrown; visits lists the lines of the fixed value rules that were visited.
parseInstance(instance, metaCtx, ruleCtx, pd, defs, file, headerLine) ==
  LET pairs == [j \in 1..Len(metaCtx) |-> visitInstanceMetadata(pd, defs, metaCtx[j])]
      afterMeta == metadataLoop([def |-> instance, seenPairs |-> EmptyMap, logs |-> <<>>],
                                pairs, 1, file, headerLine)
      firstLine == headerLine + Len(metaCtx)
  IN IF requiresInstanceOf(afterMeta.def) THEN
       [threw |-> TRUE, def |-> afterMeta.def, logs |-> afterMeta.logs, visits |-> <<>>]
     ELSE
       [threw |-> FALSE,
        def |-> [afterMeta.def EXCEPT !.rules =
                   [j \in 1..Len(ruleCtx) |-> visitFixedValueRule(ruleCtx[j], file, firstLine + j)]],
        logs |-> afterMeta.logs,
        visits |-> [j \in 1..Len(ruleCtx) |-> [file |-> file, line |-> firstLine + j]]]

\* FSHImporter.visitInstance
visitInstance(doc, ctx, pd, defs, file, headerLine) ==
  LET instance == NewInstance(ctx.name, SourceInfo(file, entityLocation(ctx, headerLine)))
      r == parseInstance(instance, ctx.meta, ctx.rules, pd, defs, file, headerLine)
  IN IF r.threw THEN
       [doc |-> doc,
        logs |-> Append(r.logs, ErrorLog(RequiredMetadata(instance.name),
                                         instance.sourceInfo.file, instance.sourceInfo.location)),
        visits |-> r.visits]
     ELSE
       [doc |-> [doc EXCEPT !.instances = MapSet(@, r.def.name, r.def)], logs |-> r.logs,
        visits |-> r.visits]

\* FSHImporter.visitValueSet
visitValueSet(doc, ctx, pd, defs, file, headerLine) ==
  LET valueSet == NewFshValueSet(ctx.name, SourceInfo(file, entityLocation(ctx, headerLine)))
      r == parseValueSet(valueSet, ctx.meta, ctx.components, pd, defs, file, headerLine)
  IN [doc |-> [doc EXCEPT !.valueSets = MapSet(@, r.def.name, r.def)], logs |-> r.logs,
      visits |-> <<>>]

\* FSHImporter.visitEntity
visitEntity(doc, ctx, pd, defs, file, headerLine) ==
  CASE ctx.kind = "alias"     -> visitAlias(doc, ctx)
    [] ctx.kind = "profile"   -> visitProfile(doc, ctx, pd, defs, file, headerLine)
    [] ctx.kind = "extension" -> visitExtension(doc, ctx, pd, defs, file, headerLine)
    [] ctx.kind = "instance"  -> visitInstance(doc, ctx, pd, defs, file, headerLine)
    [] ctx.kind = "valueSet"  -> visitValueSet(doc, ctx, pd, defs, file, headerLine)
    [] OTHER                  -> [doc |-> doc, logs |-> <<>>, visits |-> <<>>]

\* ------------------------------------------------------------------ import
\* The entities of document d of the batch.
EntitiesOf(d) == contexts[d].entities

\* The position after <<d, e>> in the nested forEach over documents and
\* entities: the next entity, else the first entity of the next document
\* that has one, else <<Len(contexts) + 1, 1>>.
RECURSIVE firstFrom(_)
firstFrom(d) ==
  IF d > Len(contexts) THEN <<Len(contexts) + 1, 1>>
  ELSE IF Len(EntitiesOf(d)) > 0 THEN <<d, 1>>
  ELSE firstFrom(d + 1)

nextPos(p) ==
  IF p[2] < Len(EntitiesOf(p[1])) THEN <<p[1], p[2] + 1>> ELSE firstFrom(p[1] + 1)

\* A preprocess that returns after the first document.
preprocessFinishedEarly == pos[1] > 1 \/ pos[1] > Len(contexts)

\* contexts.forEach in preprocess has run over every document
preprocessFinished == pos[1] > Len(contexts)

\* import, up to the call of preprocess: one FSHDocument and one parse tree
\* per raw input; no document is current; preprocess starts with empty tables.
ImportStart(batch, defs) ==
  /\ contexts = batch
  /\ fhirDefs = defs
  /\ docs = [i \in 1..Len(batch) |-> NewFSHDocument(batch[i].path)]
  /\ data = NewPreprocessedData
  /\ preprocessedData = NewPreprocessedData
  /\ currentDoc = 0
  /\ currentFile = Undefined
  /\ pc = "preprocess"
  /\ pos = IF batch = <<>> \/ \A i \in 1..Len(batch) : batch[i].entities = <<>>
           THEN <<Len(batch) + 1, 1>>
           ELSE <<CHOOSE i \in 1..Len(batch) :
                    /\ batch[i].entities # <<>>
                    /\ \A j \in 1..(i - 1) : batch[j].entities = <<>>, 1>>
  /\ lastReg = NoCall
  /\ regCount = 0
  /\ logs = <<>>
  /\ fvVisits = <<>>
  /\ lastCall = NoLastCall

\* preprocess: the registrations of the entity at pos
PreprocessEntity ==
  /\ pc = "preprocess"
  /\ ~preprocessFinished
  /\ data' = preprocessEntity(data, EntitiesOf(pos[1])[pos[2]])
  /\ pos' = nextPos(pos)
  /\ UNCHANGED <<contexts, fhirDefs, preprocessedData, docs, currentDoc, currentFile, pc,
                 lastReg, regCount, logs, fvVisits, lastCall>>

\* preprocess: this.preprocessedData = data, and import goes on to its
\* second forEach
PreprocessReturn ==
  /\ pc = "preprocess"
  /\ preprocessFinished
  /\ preprocessedData' = data
  /\ pc' = "visit"
  /\ pos' = <<1, 0>>
  /\ UNCHANGED <<contexts, fhirDefs, data, docs, currentDoc, currentFile,
                 lastReg, regCount, logs, fvVisits, lastCall>>

\* import: this.currentDoc = docs[index]; this.currentFile = this.currentDoc.file ?? ''
BeginDoc ==
  /\ pc = "visit"
  /\ pos[2] = 0
  /\ pos[1] <= Len(contexts)
  /\ currentDoc' = pos[1]
  /\ currentFile' = IF docs[pos[1]].file # Undefined THEN docs[pos[1]].file ELSE ""
  /\ pos' = <<pos[1], 1>>
  /\ UNCHANGED <<contexts, fhirDefs, data, preprocessedData, docs, pc,
                 lastReg, regCount, logs, fvVisits, lastCall>>

\* A visit that also enters the visited entity's name in the tables.
VisitEntityRegistering ==
  /\ pc = "visit"
  /\ pos[2] >= 1
  /\ pos[2] <= Len(EntitiesOf(currentDoc))
  /\ firstThrowing(preprocessedData, fhirDefs, EntitiesOf(currentDoc)[pos[2]]) = 0
  /\ LET r == visitEntity(docs[currentDoc], EntitiesOf(currentDoc)[pos[2]],
                          preprocessedData, fhirDefs, currentFile,
                          entityLine(EntitiesOf(currentDoc), pos[2]))
     IN /\ docs' = [docs EXCEPT ![currentDoc] = r.doc]
        /\ logs' = logs \o r.logs
        /\ fvVisits' = fvVisits \o r.visits
  /\ preprocessedData' = [preprocessedData EXCEPT
                            !.all = MapSet(@, EntitiesOf(currentDoc)[pos[2]].name, "visited")]
  /\ pos' = <<pos[1], pos[2] + 1>>
  /\ UNCHANGED <<contexts, fhirDefs, data, currentDoc, currentFile, pc,
                 lastReg, regCount, lastCall>>

\* visitDoc: this.visitEntity(e) for the entity at pos
VisitEntity ==
  /\ pc = "visit"
  /\ pos[2] >= 1
  /\ pos[2] <= Len(EntitiesOf(currentDoc))
  /\ firstThrowing(preprocessedData, fhirDefs, EntitiesOf(currentDoc)[pos[2]]) = 0
  /\ LET r == visitEntity(docs[currentDoc], EntitiesOf(currentDoc)[pos[2]],
                          preprocessedData, fhirDefs, currentFile,
                          entityLine(EntitiesOf(currentDoc), pos[2]))
     IN /\ docs' = [docs EXCEPT ![currentDoc] = r.doc]
        /\ logs' = logs \o r.logs
        /\ fvVisits' = fvVisits \o r.visits
  /\ pos' = <<pos[1], pos[2] + 1>>
  /\ UNCHANGED <<contexts, fhirDefs, data, preprocessedData, currentDoc, currentFile, pc,
                 lastReg, regCount, lastCall>>

\* visitDoc: this.visitEntity(e) throws. Neither visitProfile, visitExtension
\* and visitValueSet nor visitDoc and import catch: the error leaves import.
\* What was logged before the throw stays logged; the entity is not stored.
VisitEntityThrows ==
  /\ pc = "visit"
  /\ pos[2] >= 1
  /\ pos[2] <= Len(EntitiesOf(currentDoc))
  /\ firstThrowing(preprocessedData, fhirDefs, EntitiesOf(currentDoc)[pos[2]]) # 0
  /\ \E cut \in {beforeThrow(EntitiesOf(currentDoc)[pos[2]],
                              firstThrowing(preprocessedData, fhirDefs,
                                            EntitiesOf(currentDoc)[pos[2]]))} :
       logs' = logs \o visitEntity(docs[currentDoc], cut, preprocessedData, fhirDefs,
                                   currentFile, entityLine(EntitiesOf(currentDoc), pos[2])).logs
  /\ pc' = "threw"
  /\ UNCHANGED <<contexts, fhirDefs, data, preprocessedData, docs, currentDoc, currentFile,
                 pos, lastReg, regCount, fvVisits, lastCall>>

\* import: visitDoc returned; this.currentDoc = null; this.currentFile = null
EndDoc ==
  /\ pc = "visit"
  /\ pos[2] >= 1
  /\ pos[2] > Len(EntitiesOf(currentDoc))
  /\ currentDoc' = 0
  /\ currentFile' = Undefined
  /\ pos' = <<pos[1] + 1, 0>>
  /\ UNCHANGED <<contexts, fhirDefs, data, preprocessedData, docs, pc,
                 lastReg, regCount, logs, fvVisits, lastCall>>

\* import: return docs
ImportReturn ==
  /\ pc = "visit"
  /\ pos[2] = 0
  /\ pos[1] > Len(contexts)
  /\ pc' = "done"
  /\ UNCHANGED <<contexts, fhirDefs, data, preprocessedData, docs, currentDoc, currentFile,
                 pos, lastReg, regCount, logs, fvVisits, lastCall>>

\* The position preprocess starts at in a batch: the first entity of the
\* first document that has one.
startPos(batch) ==
  IF batch = <<>> \/ \A i \in 1..Len(batch) : batch[i].entities = <<>>
  THEN <<Len(batch) + 1, 1>>
  ELSE <<CHOOSE i \in 1..Len(batch) :
           /\ batch[i].entities # <<>>
           /\ \A j \in 1..(i - 1) : batch[j].entities = <<>>, 1>>

\* A second import that goes on with the table of the first.
ImportAgainKeepingTable(batch) ==
  /\ pc \in {"done", "threw"}
  /\ lastCall = NoLastCall
  /\ lastCall' = [op |-> "import", previous |-> contexts, outcome |-> pc]
  /\ contexts' = batch
  /\ docs' = [i \in 1..Len(batch) |-> NewFSHDocument(batch[i].path)]
  /\ data' = preprocessedData
  /\ pc' = "preprocess"
  /\ pos' = startPos(batch)
  /\ UNCHANGED <<fhirDefs, preprocessedData, currentDoc, currentFile, lastReg, regCount,
                 logs, fvVisits>>

\* import called again on the same importer, after an import that returned
\* or threw: new docs and contexts, and preprocess starts on a new
\* PreprocessedData; this.preprocessedData, this.currentDoc and
\* this.currentFile are as the first call left them. lastCall keeps the
\* batch and the outcome of the first call.
ImportAgain(batch) ==
  /\ pc \in {"done", "threw"}
  /\ lastCall = NoLastCall
  /\ lastCall' = [op |-> "import", previous |-> contexts, outcome |-> pc]
  /\ contexts' = batch
  /\ docs' = [i \in 1..Len(batch) |-> NewFSHDocument(batch[i].path)]
  /\ data' = NewPreprocessedData
  /\ pc' = "preprocess"
  /\ pos' = startPos(batch)
  /\ UNCHANGED <<fhirDefs, preprocessedData, currentDoc, currentFile, lastReg, regCount,
                 logs, fvVisits>>

Next ==
  \/ PreprocessEntity
  \/ PreprocessReturn
  \/ BeginDoc
  \/ VisitEntity
  \/ EndDoc
  \/ ImportReturn

\* ----------------------------------------------------------- the batches
\* The ids and Parent references the documents may use: the names and one
\* symbol that is no entity's name.
RefSyms == Syms \cup {"C"}

\* The URL the aliases of the documents stand for.
AliasUrl == "http://loinc.org"

\* The paths of the raw inputs, by index.
PathOf(i) == IF i = 1 THEN "a.fsh" ELSE "b.fsh"

\* All sequences over S of length at most n.
SeqsUpTo(S, n) == UNION {[1..k -> S] : k \in 0..n}

\* The batches of two raw inputs that hold the entities es: the first c in
\* the first document, the others in the second.
SplitBatches(es) ==
  {<<[path |-> PathOf(1), entities |-> SubSeq(es, 1, c)],
     [path |-> PathOf(2), entities |-> SubSeq(es, c + 1, Len(es))]>> : c \in 0..Len(es)}

AliasEntities == {EntityCtx("alias", n, AliasUrl, <<>>, <<>>, <<>>) : n \in Syms}

\* Metadata blocks of at most one line: nothing, an Id (another entity's name
\* or a symbol of its own) or a Parent that names an entity.
IdOrParentMetas ==
  {<<>>} \cup {<<MetaCtx("Id", x)>> : x \in {"B", "C"}} \cup {<<MetaCtx("Parent", x)>> : x \in Syms}

SdEntities(metas, rules) ==
  {EntityCtx(k, n, Undefined, m, r, <<>>) : k \in {"profile", "extension"}, n \in Syms,
                                            m \in metas, r \in rules}

VsEntities(metas, components) ==
  {EntityCtx("valueSet", n, Undefined, m, <<>>, c) : n \in Syms, m \in metas, c \in components}

\* The provider of the import: it knows every symbol as a Profile and as a
\* Resource, under the URL of an external package.
CoreDefs == ProviderOf({"Profile", "Resource"}, [x \in Syms \cup RefSyms |-> ExternalUrl(x)])

\* Most entities in a batch of Spec.
MaxEntities == 2

ImportEntities ==
  AliasEntities \cup SdEntities(IdOrParentMetas, {<<>>})
    \cup VsEntities({<<>>, <<MetaCtx("Id", "B")>>}, {<<>>})

Init ==
  \E es \in SeqsUpTo(ImportEntities, MaxEntities) : \E batch \in SplitBatches(es) :
    ImportStart(batch, CoreDefs)

Spec == Init /\ [][Next]_vars

\* ------------------------------------------------- batches: metadata blocks
\* Most metadata lines in a block of SpecSd.
MaxMeta == 3

\* A batch of one raw input.
SingleBatch(es) == <<[path |-> PathOf(1), entities |-> es]>>

\* The metadata lines of a Profile or Extension: each key with either symbol.
SdMetaLines == {MetaCtx(k, x) : k \in {"Id", "Parent", "Title", "Description"}, x \in Syms}

InitSd ==
  \E e \in SdEntities(SeqsUpTo(SdMetaLines, MaxMeta), {<<>>}) :
    ImportStart(SingleBatch(<<e>>), CoreDefs)

SpecSd == InitSd /\ [][Next]_vars

\* ------------------------------------------------------ batches: instances
\* Most entities in a batch of SpecInstance.
MaxInstances == 2

InstanceEntities(metas, rules) ==
  {EntityCtx("instance", n, Undefined, m, r, <<>>) : n \in Syms, m \in metas, r \in rules}

\* The metadata blocks of the instances: without InstanceOf, with one, with
\* two, and with a Title before or instead of it.
InstanceMetas ==
  {<<>>, <<MetaCtx("Title", "A")>>, <<MetaCtx("Title", "A"), MetaCtx("Title", "B")>>,
   <<MetaCtx("InstanceOf", "A")>>, <<MetaCtx("Title", "A"), MetaCtx("InstanceOf", "B")>>,
   <<MetaCtx("InstanceOf", "A"), MetaCtx("InstanceOf", "B")>>}

\* The fixed value rule `* active = "x"`
FixedValueCtx == RuleCtx("fixedValue", "active", <<>>, <<>>, <<>>, "x")

InitInstance ==
  \E es \in SeqsUpTo(AliasEntities \cup InstanceEntities(InstanceMetas, {<<>>, <<FixedValueCtx>>}),
                     MaxInstances) :
    ImportStart(SingleBatch(es), CoreDefs)

SpecInstance == InitInstance /\ [][Next]_vars

\* ----------------------------------------------------- batches: value sets
\* Most components in the value set of SpecVs.
MaxComponents == 3

\* The components of the value set A. Concept components: a code from a
\* system, a code that names the same system itself, codes from the system
\* and two value sets written in either order, an excluded code, a list of
\* codes from another system, a code without a system, a code that names a
\* system twice. A filter component on the first system, and one without a
\* system.
VsComponents ==
  {VsComponentCtx(FALSE, "concept", "LNC", <<>>, CodeCtx("", "a"), <<>>, <<>>),
   VsComponentCtx(FALSE, "concept", Undefined, <<>>, CodeCtx("LNC", "b"), <<>>, <<>>),
   VsComponentCtx(FALSE, "concept", "LNC", <<"A", "B">>, CodeCtx("", "c"), <<>>, <<>>),
   VsComponentCtx(FALSE, "concept", "LNC", <<"B", "A">>, CodeCtx("", "d"), <<>>, <<>>),
   VsComponentCtx(TRUE, "concept", "LNC", <<>>, CodeCtx("", "e"), <<>>, <<>>),
   VsComponentCtx(FALSE, "concept", "SCT", <<>>, NoCode, <<"f", "g">>, <<>>),
   VsComponentCtx(FALSE, "concept", Undefined, <<>>, CodeCtx("", "h"), <<>>, <<>>),
   VsComponentCtx(FALSE, "concept", "LNC", <<>>, CodeCtx("LNC", "i"), <<>>, <<>>),
   VsComponentCtx(FALSE, "filter", "LNC", <<>>, NoCode, <<>>, <<FilterCtx("display", "exists", NoFilterValue)>>),
   VsComponentCtx(FALSE, "filter", Undefined, <<>>, NoCode, <<>>, <<FilterCtx("display", "exists", NoFilterValue)>>)}

InitVs ==
  \E e \in VsEntities({<<>>}, SeqsUpTo(VsComponents, MaxComponents)) :
    e.name = "A" /\ ImportStart(SingleBatch(<<e>>), CoreDefs)

SpecVs == InitVs /\ [][Next]_vars

\* ---------------------------------------------------------- batches: rules
\* Most items in the contains rule of SpecRules.
MaxItems == 2

\* The CARD tokens 0..1 and 1..*
CardTexts == {<<"0", ".", ".", "1">>, <<"1", ".", ".", "*">>}

\* The items of a contains rule: unflagged, with one flag, with two.
ContainsItems ==
  {ItemCtx(n, c, f) : n \in {"x", "y"}, c \in CardTexts, f \in {<<>>, <<"MS">>, <<"SU", "?!">>}}

ContainsPath == "extension"

\* The rule blocks of SpecRules: a contains rule, alone, after a card rule
\* with or without flags, before a flag rule.
ContainsBlocks ==
  {before \o <<RuleCtx("contains", ContainsPath, <<>>, <<>>, items, "")>> \o after :
     before \in {<<>>, <<RuleCtx("card", "name", <<"0", ".", ".", "1">>, <<>>, <<>>, "")>>,
                 <<RuleCtx("card", "name", <<"1", ".", ".", "1">>, <<"MS">>, <<>>, "")>>},
     after \in {<<>>, <<RuleCtx("flag", "name", <<>>, <<"SU">>, <<>>, "")>>},
     items \in SeqsUpTo(ContainsItems, MaxItems) \ {<<>>}}

InitRules ==
  \E e \in SdEntities({<<>>}, ContainsBlocks) :
    e.name = "A" /\ ImportStart(SingleBatch(<<e>>), CoreDefs)

SpecRules == InitRules /\ [][Next]_vars

\* ------------------------------------------- batches: documents with rules
\* Most entities in a batch of SpecOrder.
MaxOrderEntities == 2

\* Rule blocks of one or two lines: a card rule, a flagged card rule before a
\* fixed value rule, a contains rule before a flag rule, a flag rule before a
\* card rule.
OrderRuleBlocks ==
  {<<>>,
   <<RuleCtx("card", "name", <<"0", ".", ".", "1">>, <<>>, <<>>, "")>>,
   <<RuleCtx("card", "name", <<"1", ".", ".", "*">>, <<"MS">>, <<>>, ""), FixedValueCtx>>,
   <<RuleCtx("contains", ContainsPath, <<>>, <<>>,
             <<ItemCtx("x", <<"0", ".", ".", "1">>, <<"MS">>),
               ItemCtx("y", <<"1", ".", ".", "*">>, <<>>)>>, ""),
     RuleCtx("flag", "name", <<>>, <<"SU">>, <<>>, "")>>,
   <<RuleCtx("flag", "id", <<>>, <<"?!">>, <<>>, ""),
     RuleCtx("card", "name", <<"1", ".", ".", "1">>, <<>>, <<>>, "")>>}

OrderEntities ==
  AliasEntities \cup SdEntities({<<>>}, OrderRuleBlocks)
    \cup InstanceEntities({<<MetaCtx("InstanceOf", "A")>>}, {<<>>, <<FixedValueCtx>>})
    \cup VsEntities({<<>>}, {<<>>})

InitOrder ==
  \E es \in SeqsUpTo(OrderEntities, MaxOrderEntities) : \E batch \in SplitBatches(es) :
    ImportStart(batch, CoreDefs)

SpecOrder == InitOrder /\ [][Next]_vars

\* ------------------------------------------------- batches: partial trees
\* Most entities in a batch of SpecPartial.
MaxPartialEntities == 2

\* Rule blocks of a tree with syntax errors: a flag rule context with neither
\* path nor paths, alone or after a card rule; and a well-formed block.
PartialRuleBlocks ==
  {<<RuleCtx("flag", Undefined, <<>>, <<"MS">>, <<>>, "")>>,
   <<RuleCtx("card", "name", <<"0", ".", ".", "1">>, <<>>, <<>>, ""),
     RuleCtx("flag", Undefined, <<>>, <<"MS">>, <<>>, "")>>,
   <<RuleCtx("flag", "name", <<>>, <<"MS">>, <<>>, "")>>}

\* Component blocks of a tree with syntax errors: a code token without '#', a
\* listed code that opens a quote it does not close (with and without a from
\* system), the latter after a component that logs; and a well-formed block.
PartialComponentBlocks ==
  {<<VsComponentCtx(FALSE, "concept", "LNC", <<>>, CodeCtx("a", Undefined), <<>>, <<>>)>>,
   <<VsComponentCtx(FALSE, "concept", "LNC", <<>>, NoCode, <<"\"a">>, <<>>)>>,
   <<VsComponentCtx(FALSE, "concept", Undefined, <<>>, NoCode, <<"\"a">>, <<>>)>>,
   <<VsComponentCtx(FALSE, "concept", Undefined, <<>>, CodeCtx("", "h"), <<>>, <<>>),
     VsComponentCtx(FALSE, "concept", "LNC", <<>>, NoCode, <<"b", "\"a">>, <<>>)>>,
   <<VsComponentCtx(FALSE, "concept", "LNC", <<>>, CodeCtx("", "a"), <<>>, <<>>)>>}

PartialEntities ==
  {e \in AliasEntities \cup SdEntities({<<>>}, PartialRuleBlocks)
           \cup VsEntities({<<>>}, PartialComponentBlocks) : e.kind = "extension" \/ e.name = "A"}

InitPartial ==
  \E es \in SeqsUpTo(PartialEntities, MaxPartialEntities) :
    ImportStart(SingleBatch(es), CoreDefs)

\* import on trees that may be partial: a visit returns or throws
NextPartial == Next \/ VisitEntityThrows

SpecPartial == InitPartial /\ [][NextPartial]_vars

\* ------------------------------------------------------ batches: filters
\* Most filter definitions of the filter component of SpecFilter.
MaxFilters == 3

StringValueCtx(chars) == FilterValueCtx("string", NoCode, chars)
CodeValueCtx(code) == FilterValueCtx("code", code, <<>>)

\* Filter definitions. Valid: exists without value; = with the string
\* "a\"b"; IS-A and descendant-of with codes; regex with /a/. Erroring: =
\* without value; exists and is-a with a string; the unknown operator foo;
\* is-a with a CODE token that has no '#'.
FilterDefs ==
  {FilterCtx("display", "exists", NoFilterValue),
   FilterCtx("version", "=", StringValueCtx(<<"\"", "a", "\\", "\"", "b", "\"">>)),
   FilterCtx("concept", "IS-A", CodeValueCtx(CodeCtx("LNC", "a"))),
   FilterCtx("concept", "descendant-of", CodeValueCtx(CodeCtx("", "b"))),
   FilterCtx("display", "regex", FilterValueCtx("regex", NoCode, <<"/", "a", "/">>)),
   FilterCtx("version", "=", NoFilterValue),
   FilterCtx("display", "exists", StringValueCtx(<<"\"", "y", "\"">>)),
   FilterCtx("concept", "is-a", StringValueCtx(<<"\"", "a", "\"">>)),
   FilterCtx("display", "foo", FilterValueCtx("true", NoCode, <<>>)),
   FilterCtx("concept", "is-a", CodeValueCtx(CodeCtx("", Undefined)))}

\* A value set A with one filter component from the system LNC.
InitFilter ==
  \E fs \in SeqsUpTo(FilterDefs, MaxFilters) :
    ImportStart(SingleBatch(<<EntityCtx("valueSet", "A", Undefined, <<>>, <<>>,
                                        <<VsComponentCtx(FALSE, "filter", "LNC", <<>>, NoCode,
                                                         <<>>, fs)>>)>>),
                CoreDefs)

SpecFilter == InitFilter /\ [][Next]_vars

\* ------------------------------------------------------ filter definition calls
\* The operator texts of the filter definitions of SpecFilterDef: the nine
\* operators, three spellings that normalise to one of them, and two texts
\* that do not.
OperatorTexts ==
  VsOperators \cup {"IS-A", "Exists", "descendant-of", "Descendant-Of", "foo", "matches"}

\* The value contexts: no value, a code, a CODE token without '#', a regex,
\* a string, true, false, and a value context with none of these.
FilterValueCtxs ==
  {NoFilterValue, CodeValueCtx(CodeCtx("LNC", "a")), CodeValueCtx(CodeCtx("", Undefined)),
   FilterValueCtx("regex", NoCode, <<"/", "a", "/">>), StringValueCtx(<<"\"", "a", "\"">>),
   FilterValueCtx("true", NoCode, <<>>), FilterValueCtx("false", NoCode, <<>>),
   FilterValueCtx("other", NoCode, <<>>)}

\* An importer that has preprocessed an empty batch, about to visit one
\* filter definition.
InitFilterDef ==
  /\ \E operator \in OperatorTexts : \E value \in FilterValueCtxs :
       contexts = <<FilterCtx("concept", operator, value)>>
  /\ fhirDefs = CoreDefs
  /\ data = NewPreprocessedData
  /\ preprocessedData = NewPreprocessedData
  /\ docs = <<>>
  /\ currentDoc = 0
  /\ currentFile = Undefined
  /\ pc = "visitFilter"
  /\ pos = <<1, 1>>
  /\ lastReg = NoCall
  /\ regCount = 0
  /\ logs = <<>>
  /\ fvVisits = <<>>
  /\ lastCall = NoLastCall

\* One call this.visitVsFilterDefinition(ctx)
VisitVsFilterDefinitionCall ==
  /\ pc = "visitFilter"
  /\ lastCall' = [op |-> "visitVsFilterDefinition",
                  result |-> visitVsFilterDefinition(preprocessedData, fhirDefs, contexts[1])]
  /\ pc' = "visitedFilter"
  /\ UNCHANGED <<contexts, fhirDefs, data, preprocessedData, docs, currentDoc, currentFile,
                 pos, lastReg, regCount, logs, fvVisits>>

NextFilterDef == VisitVsFilterDefinitionCall

SpecFilterDef == InitFilterDef /\ [][NextFilterDef]_vars

\* ------------------------------------------------------ batches: card rules
\* Most card rule lines of the entity of SpecCard.
MaxCardLines == 2

\* The decimal digits of a natural number.
DigitChar(n) == CHOOSE c \in Digits : DigitValue(c) = n

RECURSIVE Decimal(_)
Decimal(n) == IF n < 10 THEN <<DigitChar(n)>> ELSE Decimal(n \div 10) \o <<DigitChar(n % 10)>>

\* The minima and the maxima written in the CARD tokens of SpecCard, and the
\* characters of each maximum.
CardMins == {0, 1, 10}
CardMaxes == {"1", "*", "20"}
MaxChars(m) == CASE m = "1" -> <<"1">> [] m = "*" -> <<"*">> [] m = "20" -> <<"2", "0">>

\* The CARD token min..max
CardText(n, m) == Decimal(n) \o <<".", ".">> \o MaxChars(m)

\* The CARD tokens of SpecCard, as pairs of a minimum and a maximum.
CardTokens == {<<0, "1">>, <<1, "*">>, <<10, "20">>, <<10, "*">>}

\* The flags of a card rule line: none, one, two, all three, one twice.
CardFlags ==
  {<<>>, <<"MS">>, <<"?!">>, <<"MS", "SU">>, <<"?!", "MS", "SU">>, <<"SU", "SU">>}

CardLines ==
  {RuleCtx("card", "name", CardText(t[1], t[2]), f, <<>>, "") : t \in CardTokens, f \in CardFlags}

InitCard ==
  \E e \in SdEntities({<<>>}, SeqsUpTo(CardLines, MaxCardLines)) :
    e.name = "A" /\ ImportStart(SingleBatch(<<e>>), CoreDefs)

SpecCard == InitCard /\ [][Next]_vars

\* ------------------------------------------------------ batches: two imports
\* Most entities of the first and of the second batch of SpecTwoImports.
MaxFirstEntities == 1
MaxSecondEntities == 2

\* Entities whose names, ids and aliases meet across the two batches: an
\* alias A, a profile A with the id B, profiles and an extension whose parent
\* is A or B, and a profile whose flag rule has no path.
TwoImportEntities ==
  {EntityCtx("alias", "A", AliasUrl, <<>>, <<>>, <<>>),
   EntityCtx("profile", "A", Undefined, <<MetaCtx("Id", "B")>>, <<>>, <<>>),
   EntityCtx("profile", "B", Undefined, <<MetaCtx("Parent", "A")>>, <<>>, <<>>),
   EntityCtx("extension", "A", Undefined, <<MetaCtx("Parent", "B")>>, <<>>, <<>>),
   EntityCtx("profile", "B", Undefined, <<>>,
             <<RuleCtx("flag", Undefined, <<>>, <<"MS">>, <<>>, "")>>, <<>>)}

SecondBatches ==
  UNION {SplitBatches(es) : es \in SeqsUpTo(TwoImportEntities, MaxSecondEntities)}

InitTwoImports ==
  \E es \in SeqsUpTo(TwoImportEntities, MaxFirstEntities) :
    ImportStart(SingleBatch(es), CoreDefs)

\* Two import calls on one importer
NextTwoImports ==
  \/ Next
  \/ VisitEntityThrows
  \/ \E batch \in SecondBatches : ImportAgain(batch)

SpecTwoImports == InitTwoImports /\ [][NextTwoImports]_vars

\* ------------------------------------------------------- resolver calls
\* Most register calls behind a table of SpecResolve.
MaxTableRegs == 2

\* The arguments of a register call.
RegCalls == [name : Syms, value : RegUrls, type : EntityTypes]

\* The table after a sequence of register calls on a new PreprocessedData.
RECURSIVE registerAll(_)
registerAll(calls) ==
  IF calls = <<>> THEN NewPreprocessedData
  ELSE LET c == calls[Len(calls)] IN
       register(registerAll(SubSeq(calls, 1, Len(calls) - 1)), c.name, c.value, c.type)

\* The lists of allowed types the source passes to normalizedValue, and every
\* list of one or two types.
KindLists ==
  {ParentTypes, <<"Alias", "ValueSet">>, <<"Alias", "CodeSystem">>,
   <<"Alias", "Profile", "Extension">>,
   <<"Alias", "Profile", "Extension", "ValueSet", "CodeSystem", "Instance">>}
    \cup {<<t>> : t \in EntityTypes} \cup {<<t, u>> : t, u \in EntityTypes}

\* The URL an external package gives a symbol as a definition of one kind.
KindUrl(kind, sym) == "http://ext.org/" \o kind \o "/" \o sym

\* Providers whose answers differ from kind to kind: one with a URL for every
\* kind, one that answers null for profiles and resources and has records
\* without a url for extensions and types.
KindProviders ==
  {[q \in ProviderKinds \X Syms |-> Def(KindUrl(q[1], q[2]))],
   [q \in ProviderKinds \X Syms |->
      IF q[1] \in {"Profile", "Resource"} THEN NullDef
      ELSE IF q[1] \in {"Extension", "Type"} THEN Def("")
      ELSE Def(KindUrl(q[1], q[2]))]}

\* Providers that know every symbol under some kinds, with a URL of their own, with
\* a URL the documents also register, or with an empty URL; and the providers
\* whose answers differ from kind to kind.
ResolveProviders ==
  {ProviderOf(known, urlOf) :
     known \in {{}, {"Profile"}, {"Resource", "Type"}, ProviderKinds},
     urlOf \in {[x \in Syms |-> ExternalUrl(x)], [x \in Syms |-> "http://u.org/1"],
                [x \in Syms |-> ""]}}
    \cup KindProviders

InitResolve ==
  /\ \E calls \in SeqsUpTo(RegCalls, MaxTableRegs) :
       /\ data = registerAll(calls)
       /\ preprocessedData = registerAll(calls)
  /\ fhirDefs \in ResolveProviders
  /\ contexts = <<>>
  /\ docs = <<>>
  /\ currentDoc = 0
  /\ currentFile = Undefined
  /\ pc = "resolve"
  /\ pos = <<1, 1>>
  /\ lastReg = NoCall
  /\ regCount = 0
  /\ logs = <<>>
  /\ fvVisits = <<>>
  /\ lastCall = NoLastCall

\* One call this.normalizedValue(value, ...types)
NormalizedValueCall ==
  /\ pc = "resolve"
  /\ \E value \in Syms, types \in KindLists :
       lastCall' = [op |-> "normalizedValue", value |-> value, types |-> types,
                    result |-> normalizedValue(preprocessedData, fhirDefs, value, types)]
  /\ pc' = "resolved"
  /\ UNCHANGED <<contexts, fhirDefs, data, preprocessedData, docs, currentDoc, currentFile,
                 pos, lastReg, regCount, logs, fvVisits>>

\* One call this.normalizedValue(value), without types
NormalizedValueNoTypesCall ==
  /\ pc = "resolve"
  /\ \E value \in Syms :
       lastCall' = [op |-> "normalizedValue", value |-> value, types |-> <<>>,
                    result |-> normalizedValueNoTypes(preprocessedData, fhirDefs, value)]
  /\ pc' = "resolved"
  /\ UNCHANGED <<contexts, fhirDefs, data, preprocessedData, docs, currentDoc, currentFile,
                 pos, lastReg, regCount, logs, fvVisits>>

NextResolve == NormalizedValueCall \/ NormalizedValueNoTypesCall

SpecResolve == InitResolve /\ [][NextResolve]_vars

\* ------------------------------------------------------ location calls
\* Most tokens of an input of SpecLocation, most spaces before a token, and
\* most characters of a token on one line.
MaxTokens == 2
MaxGap == 1
MaxTokenLen == 2

\* How a token lies in the input: whether a line feed precedes it, the
\* spaces before it, its characters on its first line, and whether it goes on
\* over a line feed with one more character (a multiline string).
TokenLayouts ==
  [newline : BOOLEAN, spaces : 0..MaxGap, length : 1..MaxTokenLen, multiline : BOOLEAN]

\* The tokens the lexer makes of the layouts, the next character having the
\* given index, line and column.
RECURSIVE lexTokens(_, _, _, _)
lexTokens(layouts, index, line, column) ==
  IF layouts = <<>> THEN <<>>
  ELSE LET l == Head(layouts)
           atLine == IF l.newline THEN line + 1 ELSE line
           atColumn == (IF l.newline THEN 0 ELSE column) + l.spaces
           start == index + (IF l.newline THEN 1 ELSE 0) + l.spaces
           size == IF l.multiline THEN l.length + 2 ELSE l.length
       IN <<Token(atLine, atColumn, start, start + size - 1)>>
            \o lexTokens(Tail(layouts), start + size,
                         IF l.multiline THEN atLine + 1 ELSE atLine,
                         IF l.multiline THEN 1 ELSE atColumn + size)

\* The contexts of a token stream that extractStartStop is called with: a
\* terminal node, or the context of an entity or a rule, which starts at a
\* token and stops at the same or a later one.
LocatedCtxs(tokens) ==
  {TerminalNode(tokens[i]) : i \in 1..Len(tokens)}
    \cup {ParserRuleCtx(tokens[q[1]], tokens[q[2]]) :
            q \in {r \in (1..Len(tokens)) \X (1..Len(tokens)) : r[1] <= r[2]}}

InitLocation ==
  /\ \E layouts \in SeqsUpTo(TokenLayouts, MaxTokens) :
       /\ layouts # <<>>
       /\ contexts = lexTokens(layouts, 0, 1, 0)
  /\ fhirDefs = CoreDefs
  /\ data = NewPreprocessedData
  /\ preprocessedData = NewPreprocessedData
  /\ docs = <<>>
  /\ currentDoc = 0
  /\ currentFile = Undefined
  /\ pc = "locate"
  /\ pos = <<1, 1>>
  /\ lastReg = NoCall
  /\ regCount = 0
  /\ logs = <<>>
  /\ fvVisits = <<>>
  /\ lastCall = NoLastCall

\* this.extractStartStop(ctx)
ExtractStartStopCall ==
  /\ pc = "locate"
  /\ \E ctx \in LocatedCtxs(contexts) :
       lastCall' = [op |-> "extractStartStop", ctx |-> ctx, result |-> textLocation(ctx)]
  /\ pc' = "located"
  /\ UNCHANGED <<contexts, fhirDefs, data, preprocessedData, docs, currentDoc, currentFile,
                 pos, lastReg, regCount, logs, fvVisits>>

NextLocation == ExtractStartStopCall

SpecLocation == InitLocation /\ [][NextLocation]_vars

\* ------------------------------------------------------ multiline strings
\* A MULTILINE_STRING context: text is mlStringCtx.getText(), the token's
\* characters with the three quotes on either side.
MlStringCtx(text) == [text |-> text]

Whitespace == {" ", "\n", "\t"}

\* mlstr.split('\n'): the pieces between the line feeds, at least one
RECURSIVE splitLines(_, _)
splitLines(chars, piece) ==
  IF chars = <<>> THEN <<piece>>
  ELSE IF Head(chars) = "\n" THEN <<piece>> \o splitLines(Tail(chars), <<>>)
  ELSE splitLines(Tail(chars), Append(piece, Head(chars)))

\* line.search(/\S|$/): the index, from 0, of the first character that is no
\* white space, the line's length if there is none
RECURSIVE searchNonSpaceOrEnd(_)
searchNonSpaceOrEnd(line) ==
  IF line = <<>> \/ Head(line) \notin Whitespace THEN 0
  ELSE 1 + searchNonSpaceOrEnd(Tail(line))

\* line.search(/\S/) === -1
isBlank(line) == \A j \in 1..Len(line) : line[j] \in Whitespace

\* The forEach that computes minSpaces, from the j-th line on
RECURSIVE minSpacesLoop(_, _, _)
minSpacesLoop(lines, j, minSpaces) ==
  IF j > Len(lines) THEN minSpaces
  ELSE LET firstNonSpace == searchNonSpaceOrEnd(lines[j]) IN
       minSpacesLoop(lines, j + 1,
                     IF firstNonSpace > 0 /\ (minSpaces = 0 \/ firstNonSpace < minSpaces)
                     THEN firstNonSpace ELSE minSpaces)

\* lines.join('\n'), from the j-th line on
RECURSIVE joinLines(_, _)
joinLines(lines, j) ==
  IF j > Len(lines) THEN <<>>
  ELSE IF j = Len(lines) THEN lines[j]
  ELSE lines[j] \o <<"\n">> \o joinLines(lines, j + 1)

\* lines.map(l => (l.length >= minSpaces ? l.slice(minSpaces) : l)).join('\n')
stripAndJoin(lines, minSpaces) ==
  joinLines([j \in 1..Len(lines) |->
               IF Len(lines[j]) >= minSpaces
               THEN SubSeq(lines[j], minSpaces + 1, Len(lines[j])) ELSE lines[j]], 1)

\* lines.pop() if the last line holds white space only
withoutBlankLastLine(lines) ==
  IF isBlank(lines[Len(lines)]) THEN SubSeq(lines, 1, Len(lines) - 1) ELSE lines

\* The part of extractMultilineString that works on the lines
stripLines(lines) == stripAndJoin(lines, minSpacesLoop(lines, 1, 0))

\* FSHImporter.extractMultilineString, the result as a sequence of characters
extractMultilineString(mlStringCtx) ==
  stripLines(withoutBlankLastLine(
    splitLines(SubSeq(mlStringCtx.text,
                      IF mlStringCtx.text[4] = "\n" THEN 5 ELSE 4,
                      Len(mlStringCtx.text) - 3), <<>>)))

\* Most characters between the quotes of a multiline string of SpecMls.
MaxMlsLen == 5

\* Most spaces a block is indented by.
MaxIndent == 2

MlsChars == {" ", "x", "\n"}

Quotes == <<"\"", "\"", "\"">>

\* A source block moved k columns to the right: k spaces more at the start
\* of each of its lines, so after every line feed of the token.
RECURSIVE indentBy(_, _)
indentBy(k, chars) ==
  IF chars = <<>> THEN <<>>
  ELSE IF Head(chars) = "\n" THEN <<"\n">> \o [j \in 1..k |-> " "] \o indentBy(k, Tail(chars))
  ELSE <<Head(chars)>> \o indentBy(k, Tail(chars))

InitMls ==
  /\ \E content \in SeqsUpTo(MlsChars, MaxMlsLen) :
       contexts = <<MlStringCtx(Quotes \o content \o Quotes)>>
  /\ fhirDefs = CoreDefs
  /\ data = NewPreprocessedData
  /\ preprocessedData = NewPreprocessedData
  /\ docs = <<>>
  /\ currentDoc = 0
  /\ currentFile = Undefined
  /\ pc = "extract"
  /\ pos = <<1, 1>>
  /\ lastReg = NoCall
  /\ regCount = 0
  /\ logs = <<>>
  /\ fvVisits = <<>>
  /\ lastCall = NoLastCall

\* this.extractMultilineString(ctx), on the token and on the token of the
\* block moved k columns to the right
ExtractMultilineStringCall ==
  /\ pc = "extract"
  /\ \E k \in 0..MaxIndent :
       lastCall' = [op |-> "extractMultilineString", k |-> k,
                    result |-> extractMultilineString(contexts[1]),
                    indented |-> extractMultilineString(MlStringCtx(indentBy(k, contexts[1].text)))]
  /\ pc' = "extracted"
  /\ UNCHANGED <<contexts, fhirDefs, data, preprocessedData, docs, currentDoc, currentFile,
                 pos, lastReg, regCount, logs, fvVisits>>

NextMls == ExtractMultilineStringCall

SpecMls == InitMls /\ [][NextMls]_vars

\* ------------------------------------------------------- package manifest
\* An optional list or object of the configuration or of the manifest: not
\* set, or set to a value.
NotSet == [defined |-> FALSE, value |-> <<>>]
SetTo(value) == [defined |-> TRUE, value |-> value]

\* A dependency and a contact of the configuration; a string field that is
\* not given is Undefined.
Dependency(packageId, version) == [packageId |-> packageId, version |-> version]
Telecom(system, value) == [system |-> system, value |-> value]
Contact(name, telecom) == [name |-> name, telecom |-> telecom]

\* The configuration PackageJSONExporter is constructed with
Configuration(dependencies, contact) ==
  [packageId |-> "fhir.us.minimal", version |-> "1.0.0",
   canonical |-> "http://hl7.org/fhir/us/minimal",
   rendering |-> "http://hl7.org/fhir/us/minimal/home", title |-> "Minimal",
   description |-> "A minimal IG", fhirVersion |-> <<"4.0.1">>, publisher |-> "The FSH Team",
   license |-> "CC0-1.0", dependencies |-> dependencies, contact |-> contact]

\* this.config.dependencies.forEach(dep => { if (dep.packageId && dep.version)
\* dependencies[dep.packageId] = dep.version })
RECURSIVE dependenciesLoop(_, _, _)
dependenciesLoop(dependencies, configured, k) ==
  IF k > Len(configured) THEN dependencies
  ELSE LET dep == configured[k] IN
       dependenciesLoop(IF dep.packageId # Undefined /\ dep.version # Undefined
                        THEN MapSet(dependencies, dep.packageId, dep.version)
                        ELSE dependencies,
                        configured, k + 1)

\* export: the dependencies of the manifest
exportDependencies(config) ==
  IF config.dependencies.defined /\ Len(config.dependencies.value) > 0
  THEN LET dependencies == dependenciesLoop([x \in {"hl7.fhir.r4.core"} |-> "4.0.1"],
                                            config.dependencies.value, 1)
       IN IF DOMAIN dependencies # {} THEN SetTo(dependencies) ELSE NotSet
  ELSE NotSet

\* contact.telecom?.find(t => t.system === system)?.value
telecomValue(contact, system) ==
  LET telecom == contact.telecom.value IN
  IF ~contact.telecom.defined \/ \A k \in 1..Len(telecom) : telecom[k].system # system
  THEN Undefined
  ELSE telecom[CHOOSE k \in 1..Len(telecom) :
                 /\ telecom[k].system = system
                 /\ \A j \in 1..(k - 1) : telecom[j].system # system].value

\* this.config.contact.forEach(contact => ... maintainers.push(...))
RECURSIVE maintainersLoop(_, _, _)
maintainersLoop(maintainers, contact, k) ==
  IF k > Len(contact) THEN maintainers
  ELSE LET email == telecomValue(contact[k], "email")
           url == telecomValue(contact[k], "url")
       IN maintainersLoop(IF contact[k].name # Undefined
                             /\ (email # Undefined \/ url # Undefined)
                          THEN Append(maintainers,
                                      [name |-> contact[k].name, email |-> email, url |-> url])
                          ELSE maintainers,
                          contact, k + 1)

\* export: the maintainers of the manifest
exportMaintainers(config) ==
  IF config.contact.defined /\ Len(config.contact.value) > 0
  THEN LET maintainers == maintainersLoop(<<>>, config.contact.value, 1)
       IN IF Len(maintainers) > 0 THEN SetTo(maintainers) ELSE NotSet
  ELSE NotSet

\* PackageJSONExporter.export
export(config) ==
  [name |-> config.packageId, version |-> config.version, canonical |-> config.canonical,
   url |-> config.rendering, title |-> config.title, description |-> config.description,
   fhirVersions |-> config.fhirVersion, author |-> config.publisher,
   license |-> config.license, dependencies |-> exportDependencies(config),
   maintainers |-> exportMaintainers(config)]

\* Most dependencies of a configuration.
MaxDeps == 2

\* The dependencies a configuration lists: with both fields, without a
\* version, without a packageId, with neither (a uri only); on a package, on
\* the core package in another version.
ConfiguredDependencies ==
  {Dependency(p, v) : p \in {Undefined, "hl7.fhir.us.pack1", "hl7.fhir.r4.core"},
                      v \in {Undefined, "1.1.1", "4.0.0"}}

\* The contact lists: none, an empty one, a contact with an email and a url,
\* one without a name, one without telecom.
ConfiguredContacts ==
  {NotSet, SetTo(<<>>),
   SetTo(<<Contact("Ms. FHIR",
                   SetTo(<<Telecom("url", "http://u.org"), Telecom("email", "a@b.c")>>))>>),
   SetTo(<<Contact(Undefined, SetTo(<<Telecom("email", "a@b.c")>>))>>),
   SetTo(<<Contact("Ms. FHIR", NotSet)>>)}

\* new PackageJSONExporter(config), before export is called
InitExport ==
  /\ \E deps \in {SetTo(d) : d \in SeqsUpTo(ConfiguredDependencies, MaxDeps)} \cup {NotSet} :
       \E contact \in ConfiguredContacts :
         contexts = <<Configuration(deps, contact)>>
  /\ fhirDefs = CoreDefs
  /\ data = NewPreprocessedData
  /\ preprocessedData = NewPreprocessedData
  /\ docs = <<>>
  /\ currentDoc = 0
  /\ currentFile = Undefined
  /\ pc = "export"
  /\ pos = <<1, 1>>
  /\ lastReg = NoCall
  /\ regCount = 0
  /\ logs = <<>>
  /\ fvVisits = <<>>
  /\ lastCall = NoLastCall

\* One call of export()
ExportCall ==
  /\ pc = "export"
  /\ lastCall' = [op |-> "export", result |-> export(contexts[1])]
  /\ pc' = "exported"
  /\ UNCHANGED <<contexts, fhirDefs, data, preprocessedData, docs, currentDoc, currentFile,
                 pos, lastReg, regCount, logs, fvVisits>>

NextExport == ExportCall

SpecExport == InitExport /\ [][NextExport]_vars

\* ------------------------------------------------------- claims: register
\* The per-kind tables and the global table, by name.
TableNames ==
  {"aliases", "profiles", "extensions", "valueSets", "codeSystems", "instances", "all"}

\* The call repeats a registration: the key already maps to the call's URL in
\* the global table and in the table of the call's kind (if that kind has one).
AlreadyRegistered(pd, call) ==
  /\ Has(pd.all, call.name) /\ pd.all[call.name] = call.value
  /\ \/ call.type \in {"Resource", "Type"}
     \/ /\ Has(forType(pd, call.type), call.name)
        /\ forType(pd, call.type)[call.name] = call.value

\* The call's key already maps to a different URL in the table of the call's
\* kind or in the global table.
Conflicts(pd, call) ==
  \/ /\ Has(forType(pd, call.type), call.name)
     /\ forType(pd, call.type)[call.name] # call.value
  \/ /\ Has(pd.all, call.name)
     /\ pd.all[call.name] # call.value

\* C4: first registration wins. A step of register never removes a key from a
\* per-kind table or from the global table and never changes the URL a key
\* maps to there, whatever URL and kind the call carries; and a call that
\* repeats a registration (same key, same URL, same kind) leaves every table
\* as it was.
C4_FirstRegistrationWins ==
  [][ /\ \A t \in TableNames : \A k \in DOMAIN data[t] :
           k \in DOMAIN data'[t] /\ data'[t][k] = data[t][k]
      /\ (regCount' = regCount + 1 /\ AlreadyRegistered(data, lastReg')) => data' = data
    ]_vars

\* C4 witness: the last call carried another URL than the one its key maps to,
\* under a kind whose table holds the key: the first registration is still there.
C4_Witness ==
  /\ regCount > 1
  /\ Has(forType(data, lastReg.type), lastReg.name)
  /\ forType(data, lastReg.type)[lastReg.name] # lastReg.value
  /\ data.all[lastReg.name] # lastReg.value

\* C5: every register call whose key already maps to a different URL, in the
\* table of the same kind or in the global table, records an error diagnostic.
C5_ConflictIsLogged ==
  [][ (regCount' = regCount + 1 /\ Conflicts(data, lastReg')) => Len(logs') > Len(logs) ]_vars

\* ------------------------------------------------------- claims: resolver
\* The URLs the per-kind tables of the allowed types hold for a symbol.
LocalUrls(pd, value, types) ==
  {forType(pd, types[i])[value] : i \in {j \in 1..Len(types) : Has(forType(pd, types[j]), value)}}

\* C1: local over external. When the symbol of a normalizedValue call is
\* registered under at least one of the allowed kinds, the tables of the
\* allowed kinds hold a single URL for it and the call returns that URL,
\* whatever the provider answers.
C1_LocalOverExternal ==
  (pc = "resolved" /\ LocalUrls(preprocessedData, lastCall.value, lastCall.types) # {})
    => LocalUrls(preprocessedData, lastCall.value, lastCall.types) = {lastCall.result}

\* C1 witness: a call whose symbol is registered under an allowed kind while
\* the provider knows it, under an allowed kind, with another URL.
C1_Witness ==
  /\ pc = "resolved"
  /\ LocalUrls(preprocessedData, lastCall.value, lastCall.types) = {lastCall.result}
  /\ externalLookup(fhirDefs, lastCall.value, lastCall.types).found
  /\ externalLookup(fhirDefs, lastCall.value, lastCall.types).url # lastCall.result

\* ------------------------------------------------------- claims: import
\* The entities of the batch in source order: document by document.
RECURSIVE EntitiesFrom(_)
EntitiesFrom(d) == IF d > Len(contexts) THEN <<>> ELSE EntitiesOf(d) \o EntitiesFrom(d + 1)

BatchEntities == EntitiesFrom(1)

\* The text of the first metadata line of a block with the given key.
FirstText(meta, key) ==
  IF \E j \in 1..Len(meta) : meta[j].key = key
  THEN meta[CHOOSE j \in 1..Len(meta) :
              meta[j].key = key /\ \A h \in 1..(j - 1) : meta[h].key # key].text
  ELSE Undefined

\* The id an entity declares: its first Id line, else its name.
DeclaredId(e) == IF FirstText(e.meta, "Id") # Undefined THEN FirstText(e.meta, "Id") ELSE e.name

\* The URL an entity declares for itself.
DeclaredUrl(e) ==
  CASE e.kind = "alias" -> e.url
    [] e.kind \in {"profile", "extension"} -> Canonical \o "/StructureDefinition/" \o DeclaredId(e)
    [] e.kind = "valueSet" -> Canonical \o "/ValueSet/" \o DeclaredId(e)
    [] OTHER -> Undefined

\* The keys an entity declares: its name, and its id for the kinds that have one.
DeclaredKeys(e) ==
  CASE e.kind = "alias" -> {e.name}
    [] e.kind \in {"profile", "extension", "valueSet"} -> {e.name, DeclaredId(e)}
    [] OTHER -> {}

\* C2 as stated: once preprocessing is over, the name and the id of every
\* Profile of the batch resolve to C/StructureDefinition/I, whatever the
\* other entities of the batch are.
C2_UrlSynthesisAlways ==
  pc \in {"visit", "done"} =>
    \A i \in 1..Len(BatchEntities) :
      BatchEntities[i].kind = "profile" =>
        \A k \in DeclaredKeys(BatchEntities[i]) :
          normalizedValue(preprocessedData, fhirDefs, k, <<"Profile">>)
            = DeclaredUrl(BatchEntities[i])

\* C2: URL synthesis. Once preprocessing is over, the name and the id of a
\* Profile resolve to C/StructureDefinition/I, each provided that no entity
\* declared earlier in the batch declares that key with another URL; the
\* entities declared after the Profile never matter.
C2_UrlSynthesis ==
  pc \in {"visit", "done"} =>
    \A i \in 1..Len(BatchEntities) :
      BatchEntities[i].kind = "profile" =>
        \A k \in DeclaredKeys(BatchEntities[i]) :
          (\A j \in 1..(i - 1) :
             k \in DeclaredKeys(BatchEntities[j])
               => DeclaredUrl(BatchEntities[j]) = DeclaredUrl(BatchEntities[i]))
            => normalizedValue(preprocessedData, fhirDefs, k, <<"Profile">>)
                 = DeclaredUrl(BatchEntities[i])

\* C2 witness: a Profile with an id of its own, followed by an entity that
\* declares one of its keys with another URL; name and id resolve to the
\* Profile's URL all the same.
C2_Witness ==
  /\ pc = "done"
  /\ \E i \in 1..Len(BatchEntities) : \E j \in (i + 1)..Len(BatchEntities) :
       /\ BatchEntities[i].kind = "profile"
       /\ DeclaredId(BatchEntities[i]) # BatchEntities[i].name
       /\ DeclaredKeys(BatchEntities[j]) \cap DeclaredKeys(BatchEntities[i]) # {}
       /\ DeclaredUrl(BatchEntities[j]) # DeclaredUrl(BatchEntities[i])
       /\ \A k \in DeclaredKeys(BatchEntities[i]) :
            normalizedValue(preprocessedData, fhirDefs, k, <<"Profile">>)
              = DeclaredUrl(BatchEntities[i])

\* The Profile or Extension the visit of entity i of document d stored, if it
\* is still the one stored under its name.
StoredSd(d, i) ==
  LET e == EntitiesOf(d)[i]
      table == IF e.kind = "profile" THEN docs[d].profiles ELSE docs[d].extensions
  IN IF /\ Has(table, e.name)
        /\ table[e.name].sourceInfo.location.startLine = entityLine(EntitiesOf(d), i)
     THEN {table[e.name]} ELSE {}

\* The URLs the batch declares for a key, anywhere.
UrlsDeclaredFor(k) ==
  {DeclaredUrl(BatchEntities[j]) : j \in {h \in 1..Len(BatchEntities) : k \in DeclaredKeys(BatchEntities[h])}}

\* C3: two-pass ordering. Nothing is visited before preprocessing is over;
\* from then on every key declared by any entity of any document is in the
\* global table; and a Parent reference to a key that the batch declares with one
\* URL only, as an alias, Profile or Extension, is stored as that URL, whether the
\* declaring entity comes before or after the referencing one.
C3_TwoPassOrdering ==
  /\ pc = "preprocess" =>
       /\ logs = <<>>
       /\ \A d \in 1..Len(docs) : docs[d] = NewFSHDocument(contexts[d].path)
  /\ pc \in {"visit", "done"} =>
       /\ \A j \in 1..Len(BatchEntities) : \A k \in DeclaredKeys(BatchEntities[j]) :
            Has(preprocessedData.all, k)
       /\ \A d \in 1..Len(contexts) : \A i \in 1..Len(EntitiesOf(d)) :
            EntitiesOf(d)[i].kind \in {"profile", "extension"} =>
              \A def \in StoredSd(d, i) :
                LET s == FirstText(EntitiesOf(d)[i].meta, "Parent") IN
                (/\ s # Undefined
                 /\ \E u \in UrlsDeclaredFor(s) : UrlsDeclaredFor(s) = {u}
                 /\ \E j \in 1..Len(BatchEntities) :
                      /\ BatchEntities[j].kind \in {"alias", "profile", "extension"}
                      /\ s \in DeclaredKeys(BatchEntities[j]))
                  => UrlsDeclaredFor(s) = {def.parent}

\* C3 witness: the import is over, and a Profile or Extension of the first
\* document stored, as its parent, the URL of an entity that only the second
\* document declares.
C3_Witness ==
  /\ pc = "done"
  /\ \E i \in 1..Len(EntitiesOf(1)) :
       /\ EntitiesOf(1)[i].kind \in {"profile", "extension"}
       /\ \E def \in StoredSd(1, i) :
            LET s == FirstText(EntitiesOf(1)[i].meta, "Parent") IN
            /\ s # Undefined
            /\ \A h \in 1..Len(EntitiesOf(1)) : s \notin DeclaredKeys(EntitiesOf(1)[h])
            /\ \E h \in 1..Len(EntitiesOf(2)) :
                 /\ EntitiesOf(2)[h].kind \in {"profile", "extension"}
                 /\ s \in DeclaredKeys(EntitiesOf(2)[h])
                 /\ def.parent = DeclaredUrl(EntitiesOf(2)[h])

\* ------------------------------------------------------- claims: metadata
\* The positions of a metadata block where a key is declared again.
Redeclarations(meta) ==
  {j \in 1..Len(meta) : \E h \in 1..(j - 1) : meta[h].key = meta[j].key}

\* The n-th smallest member of a set of numbers.
NthOf(S, n) == CHOOSE j \in S : Cardinality({h \in S : h < j}) = n - 1

\* The field of an entity a metadata key is stored in.
FieldOf(def, key) ==
  CASE key = "Id" -> def.id
    [] key = "Parent" -> def.parent
    [] key = "Title" -> def.title
    [] key = "Description" -> def.description
    [] key = "InstanceOf" -> def.instanceOf

\* C6: duplicate metadata. Once a Profile or Extension has been imported, the
\* entity carries, for every key its metadata block declares, the value of the
\* first declaration; and the diagnostics are exactly one "already declared"
\* error per later declaration of a key, in source order, each at the file and
\* line of that declaration: n - 1 of them for a key declared n times.
C6_DuplicateMetadata ==
  pc = "done" =>
    \A i \in 1..Len(EntitiesOf(1)) :
      LET e == EntitiesOf(1)[i]
          again == Redeclarations(e.meta)
      IN e.kind \in {"profile", "extension"} =>
           /\ StoredSd(1, i) # {}
           /\ \A def \in StoredSd(1, i) : \A j \in (1..Len(e.meta)) \ again :
                FieldOf(def, e.meta[j].key)
                  = visitSdMetadata(preprocessedData, fhirDefs, e.meta[j]).value
           /\ Len(logs) = Cardinality(again)
           /\ \A n \in 1..Len(logs) :
                /\ logs[n].level = "error"
                /\ logs[n].message.text = "Metadata field already declared"
                /\ logs[n].message.key = e.meta[NthOf(again, n)].key
                /\ logs[n].file = contexts[1].path
                /\ logs[n].location.startLine = entityLine(EntitiesOf(1), i) + NthOf(again, n)
           /\ \A k \in {"Id", "Parent", "Title", "Description"} :
                LET n == Cardinality({j \in 1..Len(e.meta) : e.meta[j].key = k}) IN
                n > 1 => Cardinality({h \in 1..Len(logs) : logs[h].message.key = k}) = n - 1

\* C6 witness: a key declared three times with a value that changes; the
\* first is stored and two errors are logged, with another key's line between.
C6_Witness ==
  /\ pc = "done"
  /\ Len(logs) = 2
  /\ \E def \in StoredSd(1, 1) :
       LET meta == EntitiesOf(1)[1].meta IN
       /\ Len(meta) = 3
       /\ meta[1].key = "Title" /\ meta[2].key = "Title" /\ meta[3].key = "Title"
       /\ meta[2].text # meta[1].text
       /\ def.title = meta[1].text
       /\ logs[1].location.startLine = 3
       /\ logs[2].location.startLine = 4

\* ------------------------------------------------------- claims: instances
\* Entity i of document d has been visited.
Visited(d, i) ==
  \/ pc = "done"
  \/ pc = "visit" /\ (pos[1] > d \/ (pos[1] = d /\ currentDoc = d /\ pos[2] > i))

\* Entity i of document d is the one visited last.
JustVisited(d, i) == pc = "visit" /\ currentDoc = d /\ pos = <<d, i + 1>>

\* The Instance stored for entity i of document d.
StoredInstance(d, i) ==
  LET e == EntitiesOf(d)[i] IN
  IF /\ Has(docs[d].instances, e.name)
     /\ docs[d].instances[e.name].sourceInfo.location.startLine = entityLine(EntitiesOf(d), i)
  THEN {docs[d].instances[e.name]} ELSE {}

\* The error diagnostics that carry the source information of entity i of document d.
ErrorsAt(d, i) ==
  {n \in 1..Len(logs) :
     /\ logs[n].level = "error"
     /\ logs[n].file = contexts[d].path
     /\ logs[n].location.startLine = entityLine(EntitiesOf(d), i)
     /\ logs[n].location.endLine = entityLine(EntitiesOf(d), i) + entitySize(EntitiesOf(d)[i]) - 1}

\* The lines of the rules of entity i of document d.
RuleLines(d, i) ==
  LET first == entityLine(EntitiesOf(d), i) + Len(EntitiesOf(d)[i].meta) IN
  {first + j : j \in 1..Len(EntitiesOf(d)[i].rules)}

\* The fixed value rules of entity i of document d that have been visited.
FixedValueVisits(d, i) ==
  {n \in 1..Len(fvVisits) :
     fvVisits[n].file = contexts[d].path /\ fvVisits[n].line \in RuleLines(d, i)}

HasInstanceOf(e) == \E j \in 1..Len(e.meta) : e.meta[j].key = "InstanceOf"

\* C7: required InstanceOf. An Instance without an InstanceOf line is not in
\* the instances map after its visit, exactly one error diagnostic carries its
\* source information, and none of its fixed value rules is visited; an
\* Instance with an InstanceOf line is in the map after its visit, with its
\* rules, and no error carries its source information. Either way the import
\* goes on: every entity that follows is visited, so at the end every alias of
\* the document is stored.
C7_RequiredInstanceOf ==
  /\ \A d \in 1..Len(contexts) : \A i \in 1..Len(EntitiesOf(d)) :
       LET e == EntitiesOf(d)[i] IN
       e.kind = "instance" =>
         IF HasInstanceOf(e)
         THEN /\ JustVisited(d, i) =>
                   /\ StoredInstance(d, i) # {}
                   /\ \A def \in StoredInstance(d, i) : Len(def.rules) = Len(e.rules)
              /\ Visited(d, i) =>
                   /\ ErrorsAt(d, i) = {}
                   /\ Cardinality(FixedValueVisits(d, i)) >= Len(e.rules)
         ELSE /\ JustVisited(d, i) => StoredInstance(d, i) = {}
              /\ Visited(d, i) =>
                   /\ StoredInstance(d, i) = {}
                   /\ Cardinality(ErrorsAt(d, i)) = 1
                   /\ \A n \in ErrorsAt(d, i) : logs[n].message.key = "InstanceOf"
                   /\ FixedValueVisits(d, i) = {}
  /\ pc = "done" =>
       \A d \in 1..Len(contexts) : \A i \in 1..Len(EntitiesOf(d)) :
         EntitiesOf(d)[i].kind = "alias" => Has(docs[d].aliases, EntitiesOf(d)[i].name)

\* C7 witness: the import is over; the first entity was an Instance with a
\* Title and a fixed value rule but no InstanceOf, the second an alias; the
\* Instance is not stored, its error is logged, its rule was not visited, and
\* the alias is stored.
C7_Witness ==
  /\ pc = "done"
  /\ Len(EntitiesOf(1)) = 2
  /\ EntitiesOf(1)[1].kind = "instance"
  /\ ~HasInstanceOf(EntitiesOf(1)[1])
  /\ Len(EntitiesOf(1)[1].meta) > 0
  /\ Len(EntitiesOf(1)[1].rules) > 0
  /\ EntitiesOf(1)[2].kind = "alias"
  /\ docs[1].instances = EmptyMap
  /\ Cardinality(ErrorsAt(1, 1)) = 1
  /\ fvVisits = <<>>
  /\ Has(docs[1].aliases, EntitiesOf(1)[2].name)

\* ------------------------------------------------------- claims: value sets
\* Two lists hold the same strings the same number of times.
SameStrings(a, b) ==
  \A x \in {a[i] : i \in 1..Len(a)} \cup {b[i] : i \in 1..Len(b)} :
    Cardinality({i \in 1..Len(a) : a[i] = x}) = Cardinality({i \in 1..Len(b) : b[i] = x})

\* Two components have the same (inclusion, from.system, sorted(from.valueSets)).
SameKey(c1, c2) ==
  /\ c1.inclusion = c2.inclusion
  /\ c1.from.system = c2.from.system
  /\ SameStrings(c1.from.valueSets, c2.from.valueSets)

\* The component the visit of component context k of entity i of document 1 yields.
VisitedComponent(i, k) ==
  visitVsComponent(preprocessedData, fhirDefs, EntitiesOf(1)[i].components[k], contexts[1].path,
                   componentLine(EntitiesOf(1)[i].components, k,
                                 entityLine(EntitiesOf(1), i) + Len(EntitiesOf(1)[i].meta))).component

\* The concepts of the source components of entity i, from the k-th on, that
\* are concept components with the key of c, in source order.
RECURSIVE ConceptsWithKey(_, _, _)
ConceptsWithKey(i, c, k) ==
  IF k > Len(EntitiesOf(1)[i].components) THEN <<>>
  ELSE LET v == VisitedComponent(i, k) IN
       (IF v.type = "ValueSetConceptComponent" /\ SameKey(v, c) THEN v.concepts ELSE <<>>)
         \o ConceptsWithKey(i, c, k + 1)

\* C8: component merge. Once a value set has been imported, its component
\* list holds no two ConceptComponents with the same inclusion, the same
\* from.system and the same from.valueSets up to order; every concept
\* component of the source has its key in the list; and the concepts of each
\* ConceptComponent are those of all the source concept components with its
\* key, concatenated in source order.
C8_ComponentMerge ==
  pc = "done" =>
    \A i \in 1..Len(EntitiesOf(1)) :
      (EntitiesOf(1)[i].kind = "valueSet" /\ Has(docs[1].valueSets, EntitiesOf(1)[i].name)) =>
        LET cs == docs[1].valueSets[EntitiesOf(1)[i].name].components
            concept == {m \in 1..Len(cs) : cs[m].type = "ValueSetConceptComponent"}
        IN /\ \A m, n \in concept : m # n => ~SameKey(cs[m], cs[n])
           /\ \A k \in 1..Len(EntitiesOf(1)[i].components) :
                VisitedComponent(i, k).type = "ValueSetConceptComponent"
                  => \E m \in concept : SameKey(cs[m], VisitedComponent(i, k))
           /\ \A m \in concept : cs[m].concepts = ConceptsWithKey(i, cs[m], 1)

\* C8 witness: three components; the first and the third are concept
\* components that write the same two value sets in different orders, the
\* second is not merged with them; the list holds the first with the concepts
\* of both, then the second.
C8_Witness ==
  /\ pc = "done"
  /\ Len(EntitiesOf(1)) = 1
  /\ Len(EntitiesOf(1)[1].components) = 3
  /\ EntitiesOf(1)[1].components[1].fromValueSets # EntitiesOf(1)[1].components[3].fromValueSets
  /\ Len(EntitiesOf(1)[1].components[1].fromValueSets) = 2
  /\ Has(docs[1].valueSets, "A")
  /\ Len(docs[1].valueSets["A"].components) = 2
  /\ Len(docs[1].valueSets["A"].components[1].concepts) = 2
  /\ docs[1].valueSets["A"].components[1].concepts
       = VisitedComponent(1, 1).concepts \o VisitedComponent(1, 3).concepts

\* ------------------------------------------------------- claims: rules
\* The rules a card or flag rule context yields: one, or two for a card rule with flags.
RulesOfPlain(ctx) == IF ctx.kind = "card" /\ Len(ctx.flags) > 0 THEN 2 ELSE 1

\* The number of the first k items of a contains rule that have flags.
Flagged(items, k) == Cardinality({h \in 1..k : Len(items[h].flags) > 0})

\* C9: containment expansion. Once a Profile or Extension has been imported,
\* a contains rule on path P with items i1..in has put into the entity's rule
\* list, contiguously after the rules of the contexts before it and before
\* those of the contexts after it, the ContainsRule with items [i1..in] and
\* then, for each item in declaration order, a CardRule on P[item] followed,
\* only if the item has flags, by a FlagRule on P[item] that sets those flags:
\* 1 + n + (number of items with flags) rules.
C9_ContainmentExpansion ==
  pc = "done" =>
    \A i \in 1..Len(EntitiesOf(1)) : \A def \in
        (IF EntitiesOf(1)[i].kind \in {"profile", "extension"} THEN StoredSd(1, i) ELSE {}) :
      \A r \in 1..Len(EntitiesOf(1)[i].rules) :
        LET ctxs == EntitiesOf(1)[i].rules
            ctx == ctxs[r]
            n == Len(ctx.items)
            Emitted(h) == IF ctxs[h].kind = "contains"
                          THEN 1 + Len(ctxs[h].items) + Flagged(ctxs[h].items, Len(ctxs[h].items))
                          ELSE RulesOfPlain(ctxs[h])
            Sum[h \in 0..Len(ctxs)] == IF h = 0 THEN 0 ELSE Sum[h - 1] + Emitted(h)
            at == Sum[r - 1]
            CardAt(k) == at + 1 + k + Flagged(ctx.items, k - 1)
        IN ctx.kind = "contains" =>
             /\ Len(def.rules) = Sum[Len(ctxs)]
             /\ Emitted(r) = 1 + n + Flagged(ctx.items, n)
             /\ def.rules[at + 1].type = "ContainsRule"
             /\ def.rules[at + 1].path = ctx.path
             /\ def.rules[at + 1].items = [k \in 1..n |-> ctx.items[k].name]
             /\ \A k \in 1..n :
                  /\ def.rules[CardAt(k)].type = "CardRule"
                  /\ def.rules[CardAt(k)].path = ctx.path \o "[" \o ctx.items[k].name \o "]"
                  /\ Len(ctx.items[k].flags) > 0 =>
                       /\ def.rules[CardAt(k) + 1].type = "FlagRule"
                       /\ def.rules[CardAt(k) + 1].path = ctx.path \o "[" \o ctx.items[k].name \o "]"
                       /\ def.rules[CardAt(k) + 1].mustSupport
                            = (\E f \in 1..Len(ctx.items[k].flags) : ctx.items[k].flags[f] = "MS")
                       /\ def.rules[CardAt(k) + 1].summary
                            = (\E f \in 1..Len(ctx.items[k].flags) : ctx.items[k].flags[f] = "SU")
             /\ \A h \in (at + 2)..(at + Emitted(r)) :
                  /\ def.rules[h].type \in {"CardRule", "FlagRule"}
                  /\ \E k \in 1..n : def.rules[h].path = ctx.path \o "[" \o ctx.items[k].name \o "]"

\* C9 witness: a contains rule with two items, the first flagged and the
\* second not, between a card rule and a flag rule: four rules, after one and
\* before one.
C9_Witness ==
  /\ pc = "done"
  /\ \E def \in StoredSd(1, 1) :
       LET ctxs == EntitiesOf(1)[1].rules IN
       /\ Len(ctxs) = 3
       /\ ctxs[2].kind = "contains"
       /\ Len(ctxs[2].items) = 2
       /\ Len(ctxs[2].items[1].flags) > 0
       /\ Len(ctxs[2].items[2].flags) = 0
       /\ Len(def.rules) = 6
       /\ def.rules[2].type = "ContainsRule"
       /\ def.rules[3].type = "CardRule"
       /\ def.rules[4].type = "FlagRule"
       /\ def.rules[5].type = "CardRule"
       /\ def.rules[6].type = "FlagRule"
       /\ def.rules[6].path = "name"

\* ------------------------------------------------------- claims: multiline strings
\* C10: multiline-string indentation stability. For a multiline string
\* whose text starts on the line after the opening quotes, extracting the
\* string with every line of the block prefixed with k more spaces gives what
\* extracting the string itself gives, also when a line of the block starts
\* at column 0.
C10_IndentationStable ==
  (pc = "extracted" /\ contexts[1].text[4] = "\n") => lastCall.indented = lastCall.result

\* ------------------------------------------------------- claims: errors
\* C11: no exception crosses the public API. For every batch, also one whose
\* parse trees are partial, import never terminates by throwing.
C11_NoExceptionCrossesApi == pc # "threw"

\* ------------------------------------------------------- claims: documents
\* The kind of entity context a map of a document is filled from.
KindOfMap == [profiles |-> "profile", extensions |-> "extension", instances |-> "instance",
              valueSets |-> "valueSet"]

\* The rules the rule lines of entity i of document d emit, from the j-th line on.
RECURSIVE RulesFromLine(_, _, _)
RulesFromLine(d, i, j) ==
  LET e == EntitiesOf(d)[i] IN
  IF j > Len(e.rules) THEN <<>>
  ELSE (IF e.kind = "instance"
        THEN <<visitFixedValueRule(e.rules[j], contexts[d].path,
                                   entityLine(EntitiesOf(d), i) + Len(e.meta) + j)>>
        ELSE visitSdRule(e.rules[j], contexts[d].path,
                         entityLine(EntitiesOf(d), i) + Len(e.meta) + j).rules)
         \o RulesFromLine(d, i, j + 1)

\* C12: one document per raw input. When import returns, there are as many
\* documents as raw inputs; the i-th carries the path of the i-th raw input;
\* every alias and every entity it holds is declared in the i-th input (same
\* kind, same name, and for an entity the same first line); and the rule list
\* of every entity is the concatenation, in source order, of the rules its
\* rule lines emit, so the lines of the rules never decrease.
C12_OneDocumentPerInput ==
  pc = "done" =>
    /\ Len(docs) = Len(contexts)
    /\ \A d \in 1..Len(docs) :
         /\ docs[d].file = contexts[d].path
         /\ \A n \in DOMAIN docs[d].aliases :
              \E i \in 1..Len(EntitiesOf(d)) :
                /\ EntitiesOf(d)[i].kind = "alias"
                /\ EntitiesOf(d)[i].name = n
                /\ EntitiesOf(d)[i].url = docs[d].aliases[n]
         /\ \A m \in DOMAIN KindOfMap : \A n \in DOMAIN docs[d][m] :
              LET def == docs[d][m][n] IN
              /\ def.name = n
              /\ def.sourceInfo.file = contexts[d].path
              /\ \E i \in 1..Len(EntitiesOf(d)) :
                   /\ EntitiesOf(d)[i].kind = KindOfMap[m]
                   /\ EntitiesOf(d)[i].name = n
                   /\ def.sourceInfo.location.startLine = entityLine(EntitiesOf(d), i)
                   /\ def.rules = RulesFromLine(d, i, 1)
              /\ \A j \in 1..(Len(def.rules) - 1) :
                   def.rules[j].sourceInfo.location.startLine
                     <= def.rules[j + 1].sourceInfo.location.startLine

\* C12 witness: import returned two documents, each with an entity of its
\* own; the one of the second document, declared under the same name as one
\* of the first, has rules of more than one line.
C12_Witness ==
  /\ pc = "done"
  /\ Len(docs) = 2
  /\ \E n \in DOMAIN docs[1].profiles \cap DOMAIN docs[2].profiles :
       /\ Len(docs[2].profiles[n].rules) > 2
       /\ docs[2].profiles[n].rules[1].sourceInfo.location.startLine
            < docs[2].profiles[n].rules[Len(docs[2].profiles[n].rules)].sourceInfo.location.startLine
       /\ docs[1].profiles[n].rules # docs[2].profiles[n].rules

\* ------------------------------------------------------- claims: unconstrained resolution
\* C13: unconstrained resolution. A normalizedValue call without allowed
\* kinds returns a URL string: the global table's URL for the symbol if it
\* has one, otherwise the URL of the definition the provider's find returns
\* if there is one, otherwise the symbol.
C13_UnconstrainedResolution ==
  (pc = "resolved" /\ lastCall.types = <<>>) =>
    /\ lastCall.result.type = "string"
    /\ lastCall.result.value =
         (IF Has(preprocessedData.all, lastCall.value) THEN preprocessedData.all[lastCall.value]
          ELSE IF find(fhirDefs, lastCall.value).present THEN find(fhirDefs, lastCall.value).url
          ELSE lastCall.value)

\* ------------------------------------------------------- claims: unresolved pass-through
\* The records the provider returns for the symbol under the allowed kinds.
ProviderRecords(defs, value, types) ==
  {findByKind(defs, types[i], value) : i \in {j \in 1..Len(types) : types[j] \in ProviderKinds}}

\* C14: unresolved pass-through. When the symbol of a normalizedValue call has
\* no local entry under an allowed kind and no provider lookup for an allowed
\* kind returns a record with a non-empty URL, the call returns the symbol
\* itself and logs nothing; and every call with allowed kinds returns a URL of
\* the table, a URL of the provider, or the symbol as written.
C14_UnresolvedPassThrough ==
  (pc = "resolved" /\ lastCall.types # <<>>) =>
    LET local == LocalUrls(preprocessedData, lastCall.value, lastCall.types)
        records == ProviderRecords(fhirDefs, lastCall.value, lastCall.types)
    IN /\ (local = {} /\ \A def \in records : ~(def.present /\ def.url # ""))
            => (lastCall.result = lastCall.value /\ logs = <<>>)
       /\ lastCall.result \in
            local \cup {def.url : def \in {r \in records : r.present}} \cup {lastCall.value}

\* C14 witness: a call whose symbol has no local entry under the allowed
\* kinds while the provider has, under an allowed kind, a record with an empty
\* URL, and which returned the symbol.
C14_Witness ==
  /\ pc = "resolved"
  /\ lastCall.types # <<>>
  /\ LocalUrls(preprocessedData, lastCall.value, lastCall.types) = {}
  /\ \E def \in ProviderRecords(fhirDefs, lastCall.value, lastCall.types) :
       def.present /\ def.url = ""
  /\ preprocessedData.all # EmptyMap
  /\ lastCall.result = lastCall.value

\* ------------------------------------------------------- claims: one entity per kind and name
\* The maps of a document that hold entities.
EntityMaps == DOMAIN KindOfMap

\* The names document d of the batch declares for a kind.
DeclaredNames(d, kind) ==
  {EntitiesOf(d)[i].name : i \in {j \in 1..Len(EntitiesOf(d)) : EntitiesOf(d)[j].kind = kind}}

\* C15: within a document there is at most one entity per kind and name,
\* whatever the sequence of declarations: no map of a document holds two
\* entities of the same name, and a returned document holds as many entities
\* of a kind as its input declares names of that kind.
C15_OneEntityPerKindAndName ==
  \A d \in 1..Len(docs) : \A m \in EntityMaps :
    /\ \A k1, k2 \in DOMAIN docs[d][m] :
         docs[d][m][k1].name = docs[d][m][k2].name => k1 = k2
    /\ (pc = "done" /\ m # "instances") =>
         Cardinality(DOMAIN docs[d][m]) = Cardinality(DeclaredNames(d, KindOfMap[m]))

\* C15 witness: a returned document whose input declares two profiles of the
\* same name with different metadata.
C15_Witness ==
  /\ pc = "done"
  /\ \E d \in 1..Len(docs) : \E i, j \in 1..Len(EntitiesOf(d)) :
       /\ i < j
       /\ EntitiesOf(d)[i].kind = "profile" /\ EntitiesOf(d)[j].kind = "profile"
       /\ EntitiesOf(d)[i].name = EntitiesOf(d)[j].name
       /\ EntitiesOf(d)[i].meta # EntitiesOf(d)[j].meta
       /\ Cardinality(DOMAIN docs[d].profiles) = 1

\* ------------------------------------------------------- claims: components with diagnostics
\* The visit of component context k of entity i of document 1: the component
\* and what the visit logs.
ComponentVisit(i, k) ==
  visitVsComponent(preprocessedData, fhirDefs, EntitiesOf(1)[i].components[k], contexts[1].path,
                   componentLine(EntitiesOf(1)[i].components, k,
                                 entityLine(EntitiesOf(1), i) + Len(EntitiesOf(1)[i].meta)))

LogsNothing(visit) == visit.logs = <<>>

\* C16: a value-set component whose visit raises a diagnostic (a single code
\* that has a system both on the code and in the from clause, a single code
\* without any system, a list of codes without from system, a filter
\* component without from system) is skipped: the component list of the
\* imported value set is the one its other components yield, in source order.
C16_DiagnosedComponentsSkipped ==
  pc = "done" =>
    \A i \in 1..Len(EntitiesOf(1)) :
      (EntitiesOf(1)[i].kind = "valueSet" /\ Has(docs[1].valueSets, EntitiesOf(1)[i].name)) =>
        docs[1].valueSets[EntitiesOf(1)[i].name].components
          = componentsLoop(<<>>,
                           SelectSeq([k \in 1..Len(EntitiesOf(1)[i].components) |->
                                        ComponentVisit(i, k)], LogsNothing),
                           1)

\* ------------------------------------------------------- claims: card rules
\* The rules the claim gives the card rule line ctx at a line of a file: a
\* CardRule with the minimum and the maximum written, then, if the line has
\* flags, a FlagRule of the same path and location with the flags written.
RulesOfCardLine(ctx, file, line) ==
  LET min == CHOOSE n \in CardMins : \E m \in CardMaxes : ctx.card = CardText(n, m)
      max == CHOOSE m \in CardMaxes : ctx.card = CardText(min, m)
      written == {ctx.flags[k] : k \in 1..Len(ctx.flags)}
      info == SourceInfo(file, extractStartStop(line, line))
  IN <<[NewRule("CardRule", ctx.path, info) EXCEPT !.min = min, !.max = max]>>
       \o (IF written # {}
           THEN <<[NewRule("FlagRule", ctx.path, info)
                     EXCEPT !.mustSupport = "MS" \in written,
                            !.summary = "SU" \in written,
                            !.modifier = "?!" \in written]>>
           ELSE <<>>)

RECURSIVE RulesOfCardLines(_, _, _, _)
RulesOfCardLines(ruleCtx, j, file, firstLine) ==
  IF j > Len(ruleCtx) THEN <<>>
  ELSE RulesOfCardLine(ruleCtx[j], file, firstLine + j)
         \o RulesOfCardLines(ruleCtx, j + 1, file, firstLine)

\* C17: a card rule line emits exactly one CardRule, with min the integer
\* before '..' and max the string after it; it emits one FlagRule more,
\* right after the CardRule and with its path and location, if and only if
\* the line has at least one flag, and that FlagRule sets exactly the flags
\* written.
C17_CardRuleLine ==
  pc = "done" =>
    \A m \in {"profiles", "extensions"} : \A n \in DOMAIN docs[1][m] :
      docs[1][m][n].rules
        = RulesOfCardLines(EntitiesOf(1)[1].rules, 1, contexts[1].path,
                           entityLine(EntitiesOf(1), 1) + Len(EntitiesOf(1)[1].meta))

\* C17 witness: an imported entity with two card rule lines, 10..* without
\* flags and then one with the flags SU and MS only; it holds three rules.
C17_Witness ==
  /\ pc = "done"
  /\ Has(docs[1].extensions, "A")
  /\ Len(EntitiesOf(1)[1].rules) = 2
  /\ EntitiesOf(1)[1].rules[1].card = <<"1", "0", ".", ".", "*">>
  /\ EntitiesOf(1)[1].rules[1].flags = <<>>
  /\ EntitiesOf(1)[1].rules[2].flags = <<"MS", "SU">>
  /\ LET rules == docs[1].extensions["A"].rules IN
     /\ Len(rules) = 3
     /\ rules[1].type = "CardRule" /\ rules[1].min = 10 /\ rules[1].max = "*"
     /\ rules[2].type = "CardRule"
     /\ rules[3].type = "FlagRule" /\ rules[3].mustSupport /\ rules[3].summary
     /\ ~rules[3].modifier
     /\ rules[3].sourceInfo = rules[2].sourceInfo

\* ------------------------------------------------------- claims: package manifest
\* The entries of a dependencies object, as pairs of a packageId and a version.
EntriesOf(dependencies) == {<<k, dependencies[k]>> : k \in DOMAIN dependencies}

\* The configured dependencies that have both a packageId and a version.
CompleteDependencies(config) ==
  LET configured == config.dependencies.value IN
  {configured[k] : k \in {j \in 1..Len(configured) :
                            /\ configured[j].packageId # Undefined
                            /\ configured[j].version # Undefined}}

\* C18: export. When the configuration lists at least one dependency, the
\* exported dependencies are exactly hl7.fhir.r4.core -> 4.0.1 and one
\* packageId -> version entry for every configured dependency that has both
\* fields; when it lists none, the manifest has no dependencies field.
C18_ExportedDependencies ==
  pc = "exported" =>
    LET config == contexts[1] IN
    IF config.dependencies.defined /\ Len(config.dependencies.value) > 0
    THEN /\ lastCall.result.dependencies.defined
         /\ EntriesOf(lastCall.result.dependencies.value)
              = {<<"hl7.fhir.r4.core", "4.0.1">>}
                  \cup {<<dep.packageId, dep.version>> : dep \in CompleteDependencies(config)}
    ELSE ~lastCall.result.dependencies.defined

\* ------------------------------------------------------- claims: common indentation
\* The lines extractMultilineString strips: those between the quotes, without
\* a blank last line.
SourceLines(mlStringCtx) ==
  withoutBlankLastLine(
    splitLines(SubSeq(mlStringCtx.text, IF mlStringCtx.text[4] = "\n" THEN 5 ELSE 4,
                      Len(mlStringCtx.text) - 3), <<>>))

\* The number of leading spaces of a line.
RECURSIVE LeadingSpaces(_)
LeadingSpaces(line) ==
  IF line = <<>> \/ Head(line) # " " THEN 0 ELSE 1 + LeadingSpaces(Tail(line))

\* The least number of leading spaces among the lines that hold a character
\* other than white space.
CommonIndentation(lines) ==
  LET nonBlank == {j \in 1..Len(lines) : ~isBlank(lines[j])} IN
  CHOOSE k \in 0..MaxMlsLen :
    /\ \E j \in nonBlank : LeadingSpaces(lines[j]) = k
    /\ \A j \in nonBlank : LeadingSpaces(lines[j]) >= k

\* How many characters of a sequence are no white space.
NonSpaces(chars) == Cardinality({j \in 1..Len(chars) : chars[j] \notin Whitespace})

\* C19: stripping removes only common indentation. With K the least number
\* of leading spaces among the lines that have a non-space character, the
\* result is the lines with K leading characters removed from each (shorter
\* lines unchanged), joined; no non-space character is removed.
C19_OnlyCommonIndentation ==
  (pc = "extracted" /\ \E j \in 1..Len(SourceLines(contexts[1])) :
                         ~isBlank(SourceLines(contexts[1])[j])) =>
    /\ lastCall.result
         = stripAndJoin(SourceLines(contexts[1]), CommonIndentation(SourceLines(contexts[1])))
    /\ NonSpaces(lastCall.result) = NonSpaces(contexts[1].text) - 6

\* ------------------------------------------------------- claims: filters
\* The visits of the filter definitions of the component of SpecFilter.
FilterVisits ==
  [k \in 1..Len(EntitiesOf(1)[1].components[1].filters) |->
     visitVsFilterDefinition(preprocessedData, fhirDefs, EntitiesOf(1)[1].components[1].filters[k])]

\* The filters of the visits that do not throw from the k-th on, and the
\* logs of those that do, the component starting on line 2.
RECURSIVE EmittedFrom(_)
EmittedFrom(k) ==
  IF k > Len(FilterVisits) THEN <<>>
  ELSE (IF FilterVisits[k].threw THEN <<>> ELSE <<FilterVisits[k].filter>>) \o EmittedFrom(k + 1)

RECURSIVE LoggedFrom(_)
LoggedFrom(k) ==
  IF k > Len(FilterVisits) THEN <<>>
  ELSE (IF FilterVisits[k].threw
        THEN <<ErrorLog(FilterVisits[k].error, contexts[1].path,
                        extractStartStop(2 + k, 2 + k))>>
        ELSE <<>>) \o LoggedFrom(k + 1)

\* C20: within a filter component that has a from system, a filter
\* definition that raises an error is omitted and logged once, as an error at
\* the definition's location, and every other definition of the component is
\* emitted, in source order.
C20_FilterErrorsAreLocal ==
  pc = "done" =>
    /\ Has(docs[1].valueSets, "A")
    /\ Len(docs[1].valueSets["A"].components) = 1
    /\ docs[1].valueSets["A"].components[1].filters = EmittedFrom(1)
    /\ logs = LoggedFrom(1)

\* C20 witness: three filter definitions, the second raising an error; the
\* component holds the first and the third, and one error is logged on the
\* line of the second.
C20_Witness ==
  /\ pc = "done"
  /\ Len(FilterVisits) = 3
  /\ ~FilterVisits[1].threw /\ FilterVisits[2].threw /\ ~FilterVisits[3].threw
  /\ FilterVisits[1].filter # FilterVisits[3].filter
  /\ docs[1].valueSets["A"].components[1].filters
       = <<FilterVisits[1].filter, FilterVisits[3].filter>>
  /\ Len(logs) = 1
  /\ logs[1].level = "error"
  /\ logs[1].location.startLine = 4

\* ------------------------------------------------------- claims: filter definitions
\* The operator of the visited filter definition, in lower case and with
\* descendant spelled descendent.
NormalisedOperator == replaceDescendant(toLocaleLowerCase(contexts[1].operator))

\* C21: a filter definition whose normalised operator is none of the nine
\* VsOperator values fails with ValueSetFilterOperatorError, with or without
\* a filter value.
C21_UnknownOperatorError ==
  (pc = "visitedFilter" /\ NormalisedOperator \notin VsOperators) =>
    /\ lastCall.result.threw
    /\ lastCall.result.error.text = "ValueSetFilterOperatorError"

\* The type the claim requires of the value of an operator, and the type of
\* the value a value context holds.
RequiredType ==
  [op \in VsOperators |->
     CASE op \in {"=", "in", "not-in"} -> "string"
       [] op = "regex" -> "regex"
       [] op = "exists" -> "boolean"
       [] OTHER -> "code"]

TypeOfValueCtx(ctx) ==
  CASE ctx.kind \in {"true", "false"} -> "boolean"
    [] ctx.kind = "code" /\ ctx.code.code # Undefined -> "code"
    [] ctx.kind \in {"string", "regex"} -> ctx.kind
    [] OTHER -> "none"

\* C22: filter value typing. For a known operator a filter is returned if
\* and only if the value is present with the type the operator requires, or
\* the operator is exists and there is no value, and then the value emitted
\* is true; a missing value for another operator fails with
\* ValueSetFilterMissingValueError, and a value of another type fails with
\* ValueSetFilterValueTypeError.
C22_FilterValueTyping ==
  (pc = "visitedFilter" /\ NormalisedOperator \in VsOperators) =>
    LET value == contexts[1].value
        r == lastCall.result
        missing == value.kind = "none"
        typed == TypeOfValueCtx(value)
    IN /\ ~r.threw <=> \/ (~missing /\ typed = RequiredType[NormalisedOperator])
                       \/ (missing /\ NormalisedOperator = "exists")
       /\ ~r.threw => /\ r.filter.operator = NormalisedOperator
                      /\ r.filter.property = contexts[1].property
       /\ (missing /\ NormalisedOperator = "exists") =>
            (r.filter.value.type = "boolean" /\ r.filter.value.text = "true")
       /\ (missing /\ NormalisedOperator # "exists") =>
            (r.threw /\ r.error.text = "ValueSetFilterMissingValueError")
       /\ (~missing /\ typed # "none" /\ typed # RequiredType[NormalisedOperator]) =>
            (r.threw /\ r.error.text = "ValueSetFilterValueTypeError")

\* C22 witness: the operator written descendant-of with a code value: a
\* filter with the operator descendent-of and the code is returned.
C22_Witness ==
  /\ pc = "visitedFilter"
  /\ contexts[1].operator = "descendant-of"
  /\ contexts[1].value.kind = "code"
  /\ ~lastCall.result.threw
  /\ lastCall.result.filter.operator = "descendent-of"
  /\ lastCall.result.filter.value.type = "FshCode"
  /\ lastCall.result.filter.value.code.code = "a"

\* ------------------------------------------------------- claims: read-only tables
\* C23: the symbol table is read-only during the visitor phase. From the end
\* of preprocess until import returns, no step (the visits and the lookups
\* they make, those for Resource and Type and those that miss included)
\* adds, removes or changes an entry of a per-kind table or of the global
\* table.
C23_TableReadOnly ==
  [][pc = "visit" => (preprocessedData' = preprocessedData /\ data' = data)]_vars

\* C23 witness: import returned; the tables hold entries, and a stored
\* profile or extension has a parent that no table resolved (the lookups
\* went through every allowed kind, Resource and Type included, and on to
\* the provider).
C23_Witness ==
  /\ pc = "done"
  /\ preprocessedData.all # EmptyMap
  /\ preprocessedData = data
  /\ \E d \in 1..Len(docs) : \E m \in {"profiles", "extensions"} : \E n \in DOMAIN docs[d][m] :
       \E x \in Syms : /\ docs[d][m][n].parent = ExternalUrl(x)
                       /\ ~Has(preprocessedData.all, x)

\* ------------------------------------------------------- claims: two imports
\* The table preprocess builds for the batch in contexts on a new
\* PreprocessedData, from entity e of document d on.
RECURSIVE FreshTableFrom(_, _, _)
FreshTableFrom(d, e, pd) ==
  IF d > Len(contexts) THEN pd
  ELSE IF e > Len(EntitiesOf(d)) THEN FreshTableFrom(d + 1, 1, pd)
  ELSE FreshTableFrom(d, e + 1, preprocessEntity(pd, EntitiesOf(d)[e]))

\* The document an importer with the table pd builds for document d of the
\* batch, from entity e on.
RECURSIVE FreshDocFrom(_, _, _, _)
FreshDocFrom(d, e, doc, pd) ==
  IF e > Len(EntitiesOf(d)) THEN doc
  ELSE FreshDocFrom(d, e + 1,
                    visitEntity(doc, EntitiesOf(d)[e], pd, fhirDefs, contexts[d].path,
                                entityLine(EntitiesOf(d), e)).doc,
                    pd)

\* The documents a new importer returns for the batch in contexts.
FreshDocs(pd) ==
  [d \in 1..Len(contexts) |-> FreshDocFrom(d, 1, NewFSHDocument(contexts[d].path), pd)]

\* C24: statelessness across imports. When an import returns on an importer
\* that ran another import before, its documents are those a new importer
\* with the same provider returns for the batch, the table is the one built
\* from this batch alone, and currentDoc and currentFile are null.
C24_StatelessAcrossImports ==
  (pc = "done" /\ lastCall # NoLastCall) =>
    \E pd \in {FreshTableFrom(1, 1, NewPreprocessedData)} :
      /\ preprocessedData = pd
      /\ docs = FreshDocs(pd)
      /\ currentDoc = 0
      /\ currentFile = Undefined

\* C24 witness: the first import registered the alias A; the second import
\* returned a document with a profile whose parent is written A, and no
\* entity of the second batch is named A or has the id A: the parent did not
\* resolve to the alias.
C24_Witness ==
  /\ pc = "done"
  /\ lastCall # NoLastCall
  /\ Len(lastCall.previous[1].entities) = 1
  /\ lastCall.previous[1].entities[1].kind = "alias"
  /\ ~Has(preprocessedData.all, "A")
  /\ Has(docs[1].profiles, "B")
  /\ docs[1].profiles["B"].parent = ExternalUrl("A")

\* ------------------------------------------------------- claims: external fallback order
\* The positions of the allowed kinds whose lookup the provider is asked
\* for: every kind but Alias and Instance.
ConsultedPositions(types) == {i \in 1..Len(types) : types[i] \notin {"Alias", "Instance"}}

\* The consulted positions whose record has a non-empty url.
UsablePositions(defs, value, types) ==
  {i \in ConsultedPositions(types) :
     <<types[i], value>> \in DOMAIN defs /\ defs[<<types[i], value>>].present
       /\ defs[<<types[i], value>>].url # ""}

\* C25: external fallback order. When the symbol of a normalizedValue call
\* has no local entry under any allowed kind, the call returns the URL of the
\* provider's record for the first allowed kind, in the caller's order, that
\* is neither Alias nor Instance and whose record has a non-empty url; when
\* there is none (as for a symbol resolved against Instance alone) it returns
\* the symbol unchanged.
C25_ExternalFallbackOrder ==
  (pc = "resolved" /\ lastCall.types # <<>>
     /\ LocalUrls(preprocessedData, lastCall.value, lastCall.types) = {}) =>
    LET usable == UsablePositions(fhirDefs, lastCall.value, lastCall.types) IN
    IF usable = {} THEN lastCall.result = lastCall.value
    ELSE LET first == CHOOSE i \in usable : \A j \in usable : i <= j
         IN lastCall.result = fhirDefs[<<lastCall.types[first], lastCall.value>>].url

\* C25 witness: a call without a local entry whose first allowed kind has a
\* record with no url and whose second allowed kind has a record with a url,
\* which the call returned, while the table holds entries.
C25_Witness ==
  /\ pc = "resolved"
  /\ Len(lastCall.types) = 2
  /\ LocalUrls(preprocessedData, lastCall.value, lastCall.types) = {}
  /\ preprocessedData.all # EmptyMap
  /\ findByKind(fhirDefs, lastCall.types[1], lastCall.value) = Def("")
  /\ findByKind(fhirDefs, lastCall.types[2], lastCall.value).present
  /\ lastCall.result = KindUrl(lastCall.types[2], lastCall.value)

\* ------------------------------------------------------- claims: location fidelity
\* (line, column) pairs in reading order
NotAfter(line1, column1, line2, column2) ==
  line1 < line2 \/ (line1 = line2 /\ column1 <= column2)

\* C26: location fidelity. Every location extractStartStop computes has
\* startLine <= endLine, startColumn >= 1 and its start not after its end in
\* reading order; for a terminal node, startLine = endLine and
\* endColumn = startColumn + the token's length - 1, the columns counting
\* from 1.
C26_LocationFidelity ==
  pc = "located" =>
    LET loc == lastCall.result
        ctx == lastCall.ctx
    IN /\ loc.startLine <= loc.endLine
       /\ loc.startColumn >= 1
       /\ NotAfter(loc.startLine, loc.startColumn, loc.endLine, loc.endColumn)
       /\ ctx.terminal =>
            /\ loc.startLine = loc.endLine
            /\ loc.startColumn = ctx.symbol.column + 1
            /\ loc.endColumn = loc.startColumn + (ctx.symbol.stop - ctx.symbol.start + 1) - 1

\* C26 witness: the location of a rule context that ends on a later line than
\* it starts, at a column before its start column.
C26_Witness ==
  /\ pc = "located"
  /\ ~lastCall.ctx.terminal
  /\ lastCall.result.startLine < lastCall.result.endLine
  /\ lastCall.result.endColumn < lastCall.result.startColumn

\* ------------------------------------------------------- claims: table agreement
\* The per-kind tables of a PreprocessedData.
KindTables == TableNames \ {"all"}

C28_ConceptSystem ==
  \A d \in 1..Len(docs) : \A name \in DOMAIN docs[d].valueSets :
    LET cs == docs[d].valueSets[name].components IN
    \A m \in 1..Len(cs) :
      cs[m].type = "ValueSetConceptComponent" =>
        \A n \in 1..Len(cs[m].concepts) :
          /\ cs[m].concepts[n].system # Undefined
          /\ cs[m].concepts[n].system # ""
          /\ cs[m].concepts[n].system = cs[m].from.system

\* C28 witness: a value set whose first source component is a single code
\* that names its system itself, without a from clause; its first
\* ConceptComponent has adopted that system and holds, after a merge, the
\* concepts of more than one source component.
C28_Witness ==
  /\ pc = "done"
  /\ Has(docs[1].valueSets, "A")
  /\ EntitiesOf(1)[1].components # <<>>
  /\ EntitiesOf(1)[1].components[1].fromSystem = Undefined
  /\ EntitiesOf(1)[1].components[1].code # NoCode
  /\ docs[1].valueSets["A"].components # <<>>
  /\ docs[1].valueSets["A"].components[1].type = "ValueSetConceptComponent"
  /\ docs[1].valueSets["A"].components[1].from.system = "LNC"
  /\ Len(docs[1].valueSets["A"].components[1].concepts) >= 2

\* ------------------------------------------------------- claims: the two passes
\* The kind of the table for the entities of a map of a document, and the
\* segment of their URLs.
TypeOfMap == [profiles |-> "Profile", extensions |-> "Extension", valueSets |-> "ValueSet"]
SegmentOfMap == [profiles |-> "/StructureDefinition/", extensions |-> "/StructureDefinition/",
                 valueSets |-> "/ValueSet/"]

\* C29: pass-1/pass-2 consistency. For every Profile, Extension or ValueSet
\* held in a document that import returned, the table maps the entity's name,
\* under the entity's own kind, to the canonical URL followed by
\* /StructureDefinition/ (or /ValueSet/) and the id recorded on the entity.
C29_PassConsistency ==
  pc = "done" =>
    \A d \in 1..Len(docs) : \A m \in DOMAIN TypeOfMap : \A name \in DOMAIN docs[d][m] :
      LET typeMap == forType(preprocessedData, TypeOfMap[m]) IN
      /\ Has(typeMap, name)
      /\ typeMap[name] = Canonical \o SegmentOfMap[m] \o docs[d][m][name].id

====
